---- MODULE Spec2Model ----
(***************************************************************************)
(* Image generation service (fastify): generation endpoints, the asset     *)
(* fetcher with placeholder fallback, the temporary artifact store with    *)
(* its deletion timers, and the download endpoint.                         *)
(*                                                                         *)
(* Strings are sequences of one-character strings.  Buffers are records    *)
(* (what a decoder sees) and encoded images are sequences of bytes.        *)
(***************************************************************************)
EXTENDS Integers, Sequences, FiniteSets, TLC

(***************************************************************************)
(* Bounds of the model.                                                    *)
(***************************************************************************)
\* generation requests issued in one run of the service
MaxReq == 2
\* longest jogos array a client sends (the schema's limit is JogosMax)
MaxJogosSent == 6
\* longest team name a client sends
MaxNameLen == 4
\* longest text handed to escapeXml, entity-like texts apart
MaxEscapeLen == 3
\* longest text handed to wrapText
MaxTextLen == 9
\* largest per-line character budget handed to wrapText
MaxBudget == 3

(***************************************************************************)
(* Program constants.                                                      *)
(***************************************************************************)
\* footballScheduleSchema: jogos: z.array(...).max(5)
JogosMax == 5
\* wrapText of imageGenerate.ts: lines.slice(0, 4)
MaxLines == 4
\* jogo.timeHome.substring(0, 3)
LabelLen == 3
\* the delay of the deletion timer, 60 * 60 * 1000 ms, in ticks of the clock
RetentionTicks == 2

Min(a, b) == IF a <= b THEN a ELSE b

(***************************************************************************)
(* Text and markup.                                                        *)
(***************************************************************************)
\* the characters client strings are drawn from: a letter and the two
\* characters that are markup in XML text content
Alphabet == {"a", "<", "&"}

\* String.prototype.substring(0, n)
Substring0(s, n) == SubSeq(s, 1, Min(n, Len(s)))

\* the entities an XML parser resolves without a DTD, written out
XmlEntities ==
    { <<"&", "a", "m", "p", ";">>, <<"&", "l", "t", ";">>, <<"&", "g", "t", ";">>,
      <<"&", "q", "u", "o", "t", ";">>, <<"&", "#", "3", "9", ";">> }

\* does an entity start at position i of s
EntityAt(s, i) ==
    \E e \in XmlEntities :
        /\ i + Len(e) - 1 <= Len(s)
        /\ SubSeq(s, i, i + Len(e) - 1) = e

\* what the XML parser behind sharp (librsvg) requires of the character data
\* of a <text> element: no raw "<", and every "&" starts an entity
XmlTextOk(s) ==
    \A i \in 1..Len(s) :
        /\ s[i] # "<"
        /\ (s[i] = "&" => EntityAt(s, i))

\* String.prototype.replace(/c/g, e): every occurrence of the character c
\* replaced by the string e, left to right
RECURSIVE ReplaceAll(_, _, _)
ReplaceAll(s, c, e) ==
    IF Len(s) = 0 THEN <<>>
    ELSE (IF s[1] = c THEN e ELSE <<s[1]>>) \o ReplaceAll(Tail(s), c, e)

\* an escapeXml whose replacement of "&" comes last
escapeXmlAmpLast(text) ==
    ReplaceAll(ReplaceAll(ReplaceAll(ReplaceAll(ReplaceAll(text,
        "<", <<"&", "l", "t", ";">>),
        ">", <<"&", "g", "t", ";">>),
        "\"", <<"&", "q", "u", "o", "t", ";">>),
        "'", <<"&", "#", "3", "9", ";">>),
        "&", <<"&", "a", "m", "p", ";">>)

\* escapeXml: the five replacements, "&" first
escapeXml(text) ==
    ReplaceAll(ReplaceAll(ReplaceAll(ReplaceAll(ReplaceAll(text,
        "&", <<"&", "a", "m", "p", ";">>),
        "<", <<"&", "l", "t", ";">>),
        ">", <<"&", "g", "t", ";">>),
        "\"", <<"&", "q", "u", "o", "t", ";">>),
        "'", <<"&", "#", "3", "9", ";">>)

\* String.prototype.toUpperCase on the characters of Alphabet
ToUpperCase(s) == [i \in 1..Len(s) |-> IF s[i] = "a" THEN "A" ELSE s[i]]

\* createTeamDisplay: the text content of the team's <text> element of the
\* overlay SVG
createTeamDisplay(teamName) == escapeXml(ToUpperCase(teamName))

\* generateHTML: the content of the team's <h3 class="team-name"> element
HtmlTeamName(teamName) == ToUpperCase(teamName)

\* String.prototype.split(" "): the words between the spaces, empty ones
\* included
RECURSIVE SplitFrom(_, _, _)
SplitFrom(text, i, word) ==
    IF i > Len(text) THEN <<word>>
    ELSE IF text[i] = " " THEN <<word>> \o SplitFrom(text, i + 1, <<>>)
    ELSE SplitFrom(text, i + 1, Append(word, text[i]))
Split(text) == SplitFrom(text, 1, <<>>)

\* the loop of wrapText in movieGenerate.ts over words[k..], then the final
\* push of a non-empty currentLine
RECURSIVE WrapLoop(_, _, _, _, _)
WrapLoop(words, k, lines, currentLine, maxCharsPerLine) ==
    IF k > Len(words)
    THEN (IF currentLine # <<>> THEN Append(lines, currentLine) ELSE lines)
    ELSE LET word == words[k]
         IN  IF Len(currentLine) + Len(word) <= maxCharsPerLine
             THEN WrapLoop(words, k + 1, lines,
                           currentLine \o (IF currentLine # <<>> THEN <<" ">> ELSE <<>>) \o word,
                           maxCharsPerLine)
             ELSE IF currentLine # <<>>
             THEN WrapLoop(words, k + 1, Append(lines, currentLine), word, maxCharsPerLine)
             ELSE WrapLoop(words, k + 1, Append(lines, word), currentLine, maxCharsPerLine)

\* the loop of wrapText in imageGenerate.ts
RECURSIVE WrapLoopImg(_, _, _, _, _)
WrapLoopImg(words, k, lines, currentLine, maxCharsPerLine) ==
    IF k > Len(words)
    THEN (IF currentLine # <<>> THEN Append(lines, currentLine) ELSE lines)
    ELSE LET word == words[k]
         IN  IF Len(currentLine) + Len(word) <= maxCharsPerLine
             THEN WrapLoopImg(words, k + 1, lines,
                              currentLine \o (IF currentLine # <<>> THEN <<" ">> ELSE <<>>) \o word,
                              maxCharsPerLine)
             ELSE WrapLoopImg(words, k + 1,
                              IF currentLine # <<>> THEN Append(lines, currentLine) ELSE lines,
                              word, maxCharsPerLine)

\* wrapText of movieGenerate.ts: every line is returned
wrapText(text, maxCharsPerLine) == WrapLoop(Split(text), 1, <<>>, <<>>, maxCharsPerLine)

\* wrapText of imageGenerate.ts: lines.slice(0, 4)
wrapTextImg(text, maxCharsPerLine) ==
    LET lines == WrapLoopImg(Split(text), 1, <<>>, <<>>, maxCharsPerLine)
    IN  SubSeq(lines, 1, Min(MaxLines, Len(lines)))

(***************************************************************************)
(* Buffers.                                                                *)
(***************************************************************************)
\* a decoded raster image of the given size
Raster(w, h) == [kind |-> "raster", w |-> w, h |-> h, text |-> <<>>]
\* response bytes that are no image
Garbage == [kind |-> "garbage", w |-> 0, h |-> 0, text |-> <<>>]

\* createPlaceholderImage: the SVG source, with the label interpolated as is
createPlaceholderImage(width, height, color, text) ==
    [kind |-> "svg", w |-> width, h |-> height, text |-> text]

\* whether sharp(buffer)...toBuffer() resolves (the input decodes)
SharpDecodes(buf) ==
    \/ buf.kind = "raster"
    \/ buf.kind = "svg" /\ XmlTextOk(buf.text)

(***************************************************************************)
(* The asset fetcher.                                                      *)
(***************************************************************************)
\* outcomes of the one fetch(url): a 2xx image body, a network error, a
\* non-2xx status, a 2xx body that is no image
FetchOutcomes == {"image", "neterr", "http", "garbage"}

\* the remote image as served, before any resize
RemoteImage == [kind |-> "raster", w |-> 64, h |-> 48, text |-> <<>>]

Resolved(buf) == [ok |-> TRUE, buf |-> buf]
Rejected == [ok |-> FALSE, buf |-> Garbage]

\* a fetcher that tries the URL a second time before it falls back
DownloadCallsRetry(outcome) ==
    IF outcome = "image" THEN <<"fetch", "sharp">>
    ELSE IF outcome = "garbage" THEN <<"fetch", "sharp", "fetch", "sharp", "createPlaceholderImage">>
    ELSE <<"fetch", "fetch", "createPlaceholderImage">>

\* the calls one invocation of downloadImageWithFallback makes, in order:
\* fetch(url) once; sharp on a 2xx body; createPlaceholderImage in the catch
DownloadCalls(outcome) ==
    IF outcome = "image" THEN <<"fetch", "sharp">>
    ELSE IF outcome = "garbage" THEN <<"fetch", "sharp", "createPlaceholderImage">>
    ELSE <<"fetch", "createPlaceholderImage">>

\* downloadImageWithFallback of footballGenerate.ts and movieGenerate.ts:
\* fetch, check response.ok, decode and resize inside the try; any throw
\* returns the placeholder SVG buffer
downloadImageWithFallback(outcome, width, height, fallbackText) ==
    IF outcome = "image"
    THEN Resolved(Raster(width, height))
    ELSE Resolved(createPlaceholderImage(width, height, "#666666", fallbackText))

\* downloadImageWithFallback of imageGenerate.ts: a 2xx body is returned
\* undecoded; in the catch the placeholder goes through sharp, outside any try
downloadImageWithFallbackImg(outcome, width, height, fallbackText) ==
    IF outcome = "image" THEN Resolved(RemoteImage)
    ELSE IF outcome = "garbage" THEN Resolved(Garbage)
    ELSE IF SharpDecodes(createPlaceholderImage(width, height, "#FF6B6B", fallbackText))
         THEN Resolved(Raster(width, height))
         ELSE Rejected

(***************************************************************************)
(* Request bodies.                                                         *)
(***************************************************************************)
GoodUrl == <<"h", "t", "t", "p", ":", "/", "/", "a">>
BadUrl == <<"a">>
NoUrl == <<>>
Urls == {GoodUrl, BadUrl}

\* z.string().url(): the string parses as an absolute URL (scheme "://" rest)
IsUrl(u) ==
    \E i \in 1..Len(u) :
        /\ i > 1
        /\ i + 3 <= Len(u)
        /\ SubSeq(u, i, i + 2) = <<":", "/", "/">>
        /\ \A j \in 1..(i - 1) : u[j] \notin {":", "/"}

\* one entry of jogos
Jogo(th, uh, ta, ua) ==
    [timeHome |-> th, logoHomeUrl |-> uh, timeAway |-> ta, logoAwayUrl |-> ua]

\* a body of POST /generate-football-schedule and /generate-football-html
FootballBody(logo, jogos, fundo) ==
    [logoEmpresaUrl |-> logo, jogos |-> jogos, fundoUrl |-> fundo]

\* a body of POST /generate-images
MovieBody(logo, capa, fundo) ==
    [logoUrl |-> logo, capaFilmeUrl |-> capa, fundoUrl |-> fundo]

\* the schema without the bound on jogos
footballScheduleSchemaNoMax(b) ==
    /\ IsUrl(b.logoEmpresaUrl)
    /\ \A i \in 1..Len(b.jogos) :
          IsUrl(b.jogos[i].logoHomeUrl) /\ IsUrl(b.jogos[i].logoAwayUrl)
    /\ (b.fundoUrl # NoUrl => IsUrl(b.fundoUrl))

\* footballScheduleSchema
footballScheduleSchema(b) ==
    /\ IsUrl(b.logoEmpresaUrl)
    /\ Len(b.jogos) <= JogosMax
    /\ \A i \in 1..Len(b.jogos) :
          IsUrl(b.jogos[i].logoHomeUrl) /\ IsUrl(b.jogos[i].logoAwayUrl)
    /\ (b.fundoUrl # NoUrl => IsUrl(b.fundoUrl))

\* imageGenerationSchema
imageGenerationSchema(b) ==
    /\ IsUrl(b.logoUrl)
    /\ IsUrl(b.capaFilmeUrl)
    /\ (b.fundoUrl # NoUrl => IsUrl(b.fundoUrl))

(***************************************************************************)
(* The three output resolutions and the encoded image.                     *)
(***************************************************************************)
Resolutions == <<"landscape", "portrait", "square">>
Res == {Resolutions[i] : i \in 1..Len(Resolutions)}

\* const resolutions = { landscape: 1920x1080, portrait: 1080x1920, square: 1080x1080 }
WidthOf(res) == IF res = "landscape" THEN 1920 ELSE 1080
HeightOf(res) == IF res = "portrait" THEN 1920 ELSE 1080

\* one byte per composited layer: 1 a decoded raster, 2 a rendered SVG
LayerByte(buf) == IF buf.kind = "raster" THEN 1 ELSE 2

\* .jpeg({ quality: 95 }).toBuffer(): the JPEG marker, a byte for the canvas
\* size, then the layers in compositing order
JpegBytes(w, h, layers) ==
    <<255, 216, ((w \div 120) * 3 + (h \div 120)) % 256>> \o layers

Ok(bytes) == [ok |-> TRUE, bytes |-> bytes, message |-> ""]
Err(msg) == [ok |-> FALSE, bytes |-> <<>>, message |-> msg]

SharpError == "Input buffer contains unsupported image format"

\* the message of the error sharp throws for a buffer that does not decode:
\* for an SVG it carries the XML parser's complaint about the first
\* offending character
SharpErrorOf(buf) ==
    IF buf.kind # "svg" THEN SharpError
    ELSE LET bad == {i \in 1..Len(buf.text) :
                        buf.text[i] = "<" \/ (buf.text[i] = "&" /\ ~EntityAt(buf.text, i))}
             first == CHOOSE i \in bad : \A j \in bad : i <= j
         IN  IF buf.text[first] = "<"
             THEN "Input buffer has corrupt header: XML parse error: StartTag: invalid element name"
             ELSE "Input buffer has corrupt header: XML parse error: xmlParseEntityRef: no name"

\* the error of the first buffer of a list that does not decode
FirstSharpError(bufs) ==
    LET bad == {k \in 1..Len(bufs) : ~SharpDecodes(bufs[k])}
    IN  SharpErrorOf(bufs[CHOOSE k \in bad : \A j \in bad : k <= j])

(***************************************************************************)
(* The render pipelines.  outs gives the outcome of the fetch of each      *)
(* asset URL of the body: [logo, capa, fundo, home, away], home and away   *)
(* being sequences indexed like jogos.                                     *)
(***************************************************************************)
\* createFootballGradientBackground / createAdvancedGradientBackground: an
\* SVG built from numbers only
GradientBackground(w, h) == [kind |-> "svg", w |-> w, h |-> h, text |-> <<>>]

\* a combinator that resolves with the results in the order the promises
\* settled in
PromiseAllSettleOrder(results, order) == [k \in 1..Len(order) |-> results[order[k]]]

\* Promise.all([...]): resolves with the results by position in the argument,
\* whatever order the promises settled in
PromiseAll(results, order) == [k \in 1..Len(results) |-> results[k]]

\* the loop "for (const jogo of data.jogos) { const [logoHome, logoAway] =
\* await Promise.all([...]); teamLogos.push(logoHome, logoAway) }" over the
\* first n games; outs.order[n] is the order the two downloads of game n
\* settle in
RECURSIVE TeamLogos(_, _, _)
TeamLogos(jogos, outs, n) ==
    IF n = 0 THEN <<>>
    ELSE TeamLogos(jogos, outs, n - 1) \o
         PromiseAll(
            << downloadImageWithFallback(outs.home[n], 100, 100,
                   Substring0(jogos[n].timeHome, LabelLen)).buf,
               downloadImageWithFallback(outs.away[n], 100, 100,
                   Substring0(jogos[n].timeAway, LabelLen)).buf >>,
            outs.order[n])

\* the two buffers createTeamLogoComposite reads for a game:
\* teamLogos[gameIndex * 2] and teamLogos[gameIndex * 2 + 1], counted from 0
RowLogos(teamLogos, gameIndex) ==
    <<teamLogos[gameIndex * 2 + 1], teamLogos[gameIndex * 2 + 2]>>

\* createTeamLogoComposite(teamLogos, gameIndex, ...): resolves when both
\* logos of the game decode (gameIndex counts from 0)
createTeamLogoComposite(teamLogos, gameIndex) ==
    /\ SharpDecodes(RowLogos(teamLogos, gameIndex)[1])
    /\ SharpDecodes(RowLogos(teamLogos, gameIndex)[2])

\* createFootballScheduleImage(data, width, height)
createFootballScheduleImage(data, outs, width, height) ==
    LET logoEmpresaBuffer ==
            downloadImageWithFallback(outs.logo, 200, 200, <<"L", "O", "G", "O">>).buf
        backgroundBuffer ==
            IF data.fundoUrl # NoUrl
            THEN downloadImageWithFallback(outs.fundo, width, height,
                                           <<"F", "U", "N", "D", "O">>).buf
            ELSE GradientBackground(width, height)
        teamLogos == TeamLogos(data.jogos, outs, Len(data.jogos))
        overlay == 2
    IN  IF /\ SharpDecodes(logoEmpresaBuffer)
           /\ \A i \in 0..(Len(data.jogos) - 1) : createTeamLogoComposite(teamLogos, i)
           /\ SharpDecodes(backgroundBuffer)
        THEN Ok(JpegBytes(width, height,
                  <<LayerByte(backgroundBuffer), overlay, LayerByte(logoEmpresaBuffer)>>
                  \o [k \in 1..Len(teamLogos) |-> LayerByte(teamLogos[k])]))
        ELSE Err(FirstSharpError(<<logoEmpresaBuffer>> \o teamLogos \o <<backgroundBuffer>>))

\* createPromotionalImage(data, width, height) of movieGenerate.ts
createPromotionalImage(data, outs, width, height) ==
    LET logoBuffer ==
            downloadImageWithFallback(outs.logo, 150, 150, <<"L", "O", "G", "O">>).buf
        capaBuffer ==
            downloadImageWithFallback(outs.capa, 300, 450, <<"M", "O", "V", "I", "E">>).buf
        backgroundBuffer ==
            IF data.fundoUrl # NoUrl
            THEN downloadImageWithFallback(outs.fundo, width, height,
                     <<"B", "A", "C", "K", "G", "R", "O", "U", "N", "D">>).buf
            ELSE GradientBackground(width, height)
        cardBackground == 2
        textOverlay == 2
    IN  IF /\ SharpDecodes(logoBuffer)
           /\ SharpDecodes(capaBuffer)
           /\ SharpDecodes(backgroundBuffer)
        THEN Ok(JpegBytes(width, height,
                  <<LayerByte(backgroundBuffer), cardBackground, LayerByte(capaBuffer),
                    textOverlay, LayerByte(logoBuffer)>>))
        ELSE Err(FirstSharpError(<<logoBuffer, capaBuffer, backgroundBuffer>>))

\* outcomes of the headless browser for one htmlToImage call
\* (the import fails; launch throws; a page step throws; the screenshot is
\* taken and browser.close() throws in the finally)
BrowserOutcomes == {"screenshot", "missing", "launchfail", "pagefail", "closefail"}

\* generateHTML(data): the document's bytes ("<" then one byte per game)
generateHTML(data) == <<60>> \o [i \in 1..Len(data.jogos) |-> 97]

\* an htmlToImage with the import guard but without the outer try/catch
htmlToImageNoCatch(html, browser, width, height) ==
    IF browser = "screenshot"
    THEN Ok(JpegBytes(width, height, <<Len(html)>>))
    ELSE IF browser = "missing" THEN Ok(html)
    ELSE Err("Failed to launch the browser process")

\* htmlToImage(html, 1080, 1920): the screenshot, or the markup bytes when
\* puppeteer is missing or any later step throws
htmlToImage(html, browser, width, height) ==
    IF browser = "screenshot"
    THEN Ok(JpegBytes(width, height, <<Len(html)>>))
    ELSE Ok(html)

(***************************************************************************)
(* Delivery: base64 and the query flags.                                   *)
(***************************************************************************)
\* Buffer.prototype.toString("base64"): each group of three bytes becomes
\* four sextets (0..63); 64 stands for the padding character "="
RECURSIVE Base64(_)
Base64(bytes) ==
    IF Len(bytes) = 0 THEN <<>>
    ELSE IF Len(bytes) = 1
    THEN << bytes[1] \div 4, (bytes[1] % 4) * 16, 64, 64 >>
    ELSE IF Len(bytes) = 2
    THEN << bytes[1] \div 4,
            (bytes[1] % 4) * 16 + bytes[2] \div 16,
            (bytes[2] % 16) * 4,
            64 >>
    ELSE << bytes[1] \div 4,
            (bytes[1] % 4) * 16 + bytes[2] \div 16,
            (bytes[2] % 16) * 4 + bytes[3] \div 64,
            bytes[3] % 64 >>
         \o Base64(SubSeq(bytes, 4, Len(bytes)))

\* `data:image/jpeg;base64,${buffer.toString("base64")}`
DataUrl(bytes) == <<"data:image/jpeg;base64,", Base64(bytes)>>

\* raw values of one query parameter: not given, a string, or given twice
\* (an array, which z.string() rejects)
QAbsent == "(absent)"
QRepeated == "(repeated)"
QueryValues == {QAbsent, "true", "false", QRepeated}

\* footballQuerySchema / movieQuerySchema: z.string().optional()
QuerySchema(q) == q.base64 # QRepeated /\ q.file # QRepeated

\* .transform((val) => val === "true")
QueryFlag(val) == val = "true"

\* a handler in which file=true wins over base64=true
UseBase64UnlessFile(q) == QueryFlag(q.base64) = TRUE /\ ~QueryFlag(q.file)

\* const useBase64 = query.base64 === true
UseBase64(q) == QueryFlag(q.base64) = TRUE

\* const useFile = query.file === true || (!query.base64 && !query.file);
\* computed by the handlers and never read
UseFile(q) == QueryFlag(q.file) = TRUE \/ (~QueryFlag(q.base64) /\ ~QueryFlag(q.file))

(***************************************************************************)
(* The service: state.                                                     *)
(***************************************************************************)
VARIABLES
    dirExists,  \* whether UPLOADS_DIR (temp-images) exists
    files,      \* the regular files of UPLOADS_DIR: a set of [name, bytes]
    timers,     \* filenames with a pending setTimeout deletion callback
    fired,      \* filenames whose deletion callback has run
    nextUuid,   \* randomUUID(): the number of session ids drawn so far
    reqs,       \* the generation requests, by request number
    dl,         \* the GET /download/:filename request being served
    probe,      \* one call of a helper function, for the function-level checks
    warned,     \* filenames whose deletion callback logged a failed unlink
    now,        \* the clock, in ticks
    due,        \* for each filename a timer was set for, the tick it is due at
    boots,      \* how many times the process has been started again
    orphaned    \* filenames on disk when the process ended

vars == <<dirExists, files, timers, fired, nextUuid, reqs, dl, probe, warned,
          now, due, boots, orphaned>>
storeVars == <<dirExists, files, timers, fired>>

\* the plugins index.ts registers, all under the prefix /api
Endpoints == {"football", "html", "movie"}

\* the resolutions an endpoint renders: htmlToImage(html, 1080, 1920) only
EpRes(ep) == IF ep = "html" THEN {"portrait"} ELSE Res

\* the filename prefixes: `football_${sessionId}_landscape.jpg`, ...
Prefix(ep) ==
    IF ep = "football" THEN "football_"
    ELSE IF ep = "html" THEN "football_html_"
    ELSE "movie_"

\* a filename without its resolution suffix
FileNameNoSuffix(prefix, sessionId, res) == <<prefix, sessionId, "image">>

\* a filename, as its three parts (the uuid has a fixed length, so the
\* concatenation determines the parts)
FileName(prefix, sessionId, res) == <<prefix, sessionId, res>>

\* the link built without the prefix the plugins are registered under
LinkPathNoPrefix(filename) == <<"download", filename>>

\* the path of the URL saveImageAndGetLink returns:
\* `${protocol}://${host}/api/download/${filename}`
LinkPath(filename) == <<"api", "download", filename>>

\* the routes of the app: app.register(footballRoutes, { prefix: "/api" })
\* with app.get("/download/:filename"); nothing else matches a GET of a
\* download path
RouteGet(path) ==
    IF Len(path) = 3 /\ path[1] = "api" /\ path[2] = "download"
    THEN "footballRoutes"
    ELSE "notFound"

NoResp == [none |-> TRUE]
NoEffects == [fetches |-> 0, renders |-> 0, writes |-> 0]
NoInput == [ep |-> "", body |-> <<>>, query |-> <<>>, outs |-> <<>>, browser |-> ""]

IdleReq ==
    [pc |-> "idle", in |-> NoInput, sessionId |-> 0, images |-> <<>>, saves |-> <<>>,
     log |-> <<>>, links |-> <<>>, status |-> 0, resp |-> NoResp, fx |-> NoEffects,
     sentAt |-> 0]

IdleDl ==
    [pc |-> "idle", handler |-> "", path |-> <<>>, name |-> <<>>, linked |-> FALSE,
     found |-> FALSE, status |-> 0, bytes |-> <<>>]

IdleProbe == [fn |-> "none"]

Init ==
    /\ dirExists \in BOOLEAN
    /\ files = {}
    /\ timers = {}
    /\ fired = {}
    /\ warned = {}
    /\ nextUuid = 0
    /\ reqs = [r \in 1..MaxReq |-> IdleReq]
    /\ dl = IdleDl
    /\ probe = IdleProbe
    /\ now = 0
    /\ due = <<>>
    /\ boots = 0
    /\ orphaned = {}

(***************************************************************************)
(* The filesystem under UPLOADS_DIR.                                       *)
(***************************************************************************)
FileExists(name) == \E f \in files : f.name = name
ReadFile(name) == (CHOOSE f \in files : f.name = name).bytes
\* fs.writeFile: creates the file or replaces its content
WriteFile(name, bytes) ==
    {f \in files : f.name # name} \cup {[name |-> name, bytes |-> bytes]}
\* fs.unlink
Unlink(name) == {f \in files : f.name # name}

(***************************************************************************)
(* Generation handlers.  An input in is [ep, body, query, outs, browser]:  *)
(* the endpoint, the request body, the raw query parameters, the outcome   *)
(* of the fetch of each asset URL and of the headless browser.             *)
(***************************************************************************)
\* the validation fastify runs before the handler (validatorCompiler with the
\* route's body and querystring schemas): the set of failing paths
ValidationIssues(in) ==
    (IF in.ep = "movie"
     THEN (IF imageGenerationSchema(in.body) THEN {} ELSE {"body"})
     ELSE (IF footballScheduleSchema(in.body) THEN {} ELSE {"body"}))
    \cup (IF QuerySchema(in.query) THEN {} ELSE {"querystring"})

\* app.setErrorHandler: hasZodFastifySchemaValidationErrors(error) => 400
ValidationErrorReply(in) ==
    [error |-> "Response Validation Error",
     message |-> "Request doesn't match the schema",
     statusCode |-> 400,
     details |-> [issues |-> ValidationIssues(in)]]

\* the Promise.all of the renders: one pipeline call per resolution
RenderAll(in) ==
    [res \in EpRes(in.ep) |->
        IF in.ep = "football"
        THEN createFootballScheduleImage(in.body, in.outs, WidthOf(res), HeightOf(res))
        ELSE IF in.ep = "movie"
        THEN createPromotionalImage(in.body, in.outs, WidthOf(res), HeightOf(res))
        ELSE htmlToImage(generateHTML(in.body), in.browser, 1080, 1920)]

\* fetch() calls of one pipeline call
FetchCount(in) ==
    IF in.ep = "football"
    THEN 1 + (IF in.body.fundoUrl # NoUrl THEN 1 ELSE 0) + 2 * Len(in.body.jogos)
    ELSE IF in.ep = "movie"
    THEN 2 + (IF in.body.fundoUrl # NoUrl THEN 1 ELSE 0)
    ELSE 0

RenderEffects(in) ==
    [fetches |-> Cardinality(EpRes(in.ep)) * FetchCount(in),
     renders |-> Cardinality(EpRes(in.ep)),
     writes |-> 0]

\* the catch of the handlers: reply.code(500).send({ success: false, message, ... })
ErrorReply(ep, message) ==
    IF ep = "html"
    THEN [success |-> FALSE, message |-> message]
    ELSE [success |-> FALSE, message |-> message,
          images |-> [res \in Res |-> <<>>]]

\* a base64 reply that encodes the landscape image under every key
Base64ReplyLandscapeOnly(ep, images) ==
    IF ep = "html"
    THEN [success |-> TRUE, image |-> DataUrl(images["portrait"]),
          message |-> "generated (base64)"]
    ELSE [success |-> TRUE, images |-> [res \in Res |-> DataUrl(images["landscape"])],
          message |-> "generated (base64)"]

\* the base64 branch: reply.code(200).send({ success, images | image, message })
Base64Reply(ep, images) ==
    IF ep = "html"
    THEN [success |-> TRUE, image |-> DataUrl(images["portrait"]),
          message |-> "generated (base64)"]
    ELSE [success |-> TRUE, images |-> [res \in Res |-> DataUrl(images[res])],
          message |-> "generated (base64)"]

\* a file reply that leaves out the square link
FileReplyTwoLinks(ep, links) ==
    IF ep = "html"
    THEN [success |-> TRUE, download |-> links["portrait"],
          message |-> "generated (download link)", expiresIn |-> "1 hour"]
    ELSE [success |-> TRUE,
          downloads |-> [res \in {"landscape", "portrait"} |-> links[res]],
          message |-> "generated (download links)", expiresIn |-> "1 hour"]

\* the file branch: reply.code(200).send({ success, downloads | download, message, expiresIn })
FileReply(ep, links) ==
    IF ep = "html"
    THEN [success |-> TRUE, download |-> links["portrait"],
          message |-> "generated (download link)", expiresIn |-> "1 hour"]
    ELSE [success |-> TRUE, downloads |-> [res \in Res |-> links[res]],
          message |-> "generated (download links)", expiresIn |-> "1 hour"]

\* a finished request: the reply leaves at the current tick
Done(req, status, resp) ==
    [req EXCEPT !.pc = "done", !.status = status, !.resp = resp, !.sentAt = now]

\* a handler without the try/catch around the renders: a failed render
\* leaves the request without a reply
HandleGenerationNoCatch(in, uuid) ==
    LET req == [IdleReq EXCEPT !.in = in]
        rendered == RenderAll(in)
        failed == {res \in EpRes(in.ep) : ~rendered[res].ok}
        images == [res \in EpRes(in.ep) |-> rendered[res].bytes]
        rreq == [req EXCEPT !.fx = RenderEffects(in), !.images = images]
    IN  IF ValidationIssues(in) # {}
        THEN Done(req, 400, ValidationErrorReply(in))
        ELSE IF failed # {}
        THEN [req EXCEPT !.fx = RenderEffects(in), !.pc = "threw"]
        ELSE IF UseBase64(in.query)
        THEN Done(rreq, 200, Base64Reply(in.ep, images))
        ELSE [rreq EXCEPT !.pc = "saving",
                          !.sessionId = uuid,
                          !.saves = [res \in EpRes(in.ep) |-> "access"],
                          !.log = [res \in EpRes(in.ep) |-> <<>>],
                          !.links = [res \in EpRes(in.ep) |-> <<>>]]

\* a handler that does not wait for the three renders before it saves: a
\* failed render in file mode no longer stops the saves
HandleGenerationSavesUnrendered(in, uuid) ==
    LET req == [IdleReq EXCEPT !.in = in]
        rendered == RenderAll(in)
        images == [res \in EpRes(in.ep) |-> rendered[res].bytes]
        rreq == [req EXCEPT !.fx = RenderEffects(in), !.images = images]
    IN  IF ValidationIssues(in) # {}
        THEN Done(req, 400, ValidationErrorReply(in))
        ELSE IF UseBase64(in.query)
        THEN Done(rreq, 200, Base64Reply(in.ep, images))
        ELSE [rreq EXCEPT !.pc = "saving",
                          !.sessionId = uuid,
                          !.saves = [res \in EpRes(in.ep) |-> "access"],
                          !.log = [res \in EpRes(in.ep) |-> <<>>],
                          !.links = [res \in EpRes(in.ep) |-> <<>>]]

\* the handler up to its first filesystem call: validation, the renders, and
\* either the reply (400, 500, base64 200) or the start of the three saves
\* under a fresh session id
HandleGeneration(in, uuid) ==
    LET req == [IdleReq EXCEPT !.in = in]
        rendered == RenderAll(in)
        failed == {res \in EpRes(in.ep) : ~rendered[res].ok}
        images == [res \in EpRes(in.ep) |-> rendered[res].bytes]
        rreq == [req EXCEPT !.fx = RenderEffects(in), !.images = images]
    IN  IF ValidationIssues(in) # {}
        THEN Done(req, 400, ValidationErrorReply(in))
        ELSE IF failed # {}
        THEN Done([req EXCEPT !.fx = RenderEffects(in)], 500,
                  ErrorReply(in.ep, rendered[CHOOSE res \in failed : TRUE].message))
        ELSE IF UseBase64(in.query)
        THEN Done(rreq, 200, Base64Reply(in.ep, images))
        ELSE [rreq EXCEPT !.pc = "saving",
                          !.sessionId = uuid,
                          !.saves = [res \in EpRes(in.ep) |-> "access"],
                          !.log = [res \in EpRes(in.ep) |-> <<>>],
                          !.links = [res \in EpRes(in.ep) |-> <<>>]]

\* a generator that hands out the last session id again
randomUUIDRepeated == IF nextUuid = 0 THEN 1 ELSE nextUuid

\* randomUUID(): a session id no earlier call returned
randomUUID == nextUuid + 1

\* a generation request arrives and runs to its reply or to its saves
Receive(r, in) ==
    /\ reqs[r].pc = "idle"
    /\ LET req == HandleGeneration(in, randomUUID)
       IN  /\ reqs' = [reqs EXCEPT ![r] = req]
           /\ nextUuid' = IF req.pc = "saving" THEN randomUUID ELSE nextUuid
    /\ UNCHANGED <<storeVars, dl, probe, warned, now, due, boots, orphaned>>

(***************************************************************************)
(* saveImageAndGetLink, one action per filesystem call that completes.     *)
(***************************************************************************)
SaveName(r, res) == FileName(Prefix(reqs[r].in.ep), reqs[r].sessionId, res)

\* const protocol = ...; const host = ...; return `${protocol}://${host}/api/download/${filename}`
\* (a plain-http request with Host: host and no x-forwarded-* headers)
saveImageAndGetLink(filename) ==
    [protocol |-> "http", host |-> "host", path |-> LinkPath(filename)]

\* ensureUploadsDir: "await fs.access(UPLOADS_DIR)" completes
SaveAccess(r, res) ==
    /\ reqs[r].saves[res] = "access"
    /\ reqs' = [reqs EXCEPT ![r].saves[res] = IF dirExists THEN "write" ELSE "mkdir",
                            ![r].log[res] = IF dirExists THEN Append(@, "dir") ELSE @]
    /\ UNCHANGED <<storeVars, nextUuid, dl, probe, warned, now, due, boots, orphaned>>

\* ensureUploadsDir with a plain fs.mkdir(UPLOADS_DIR): it rejects with EEXIST
\* when another save has created the directory since the access
SaveMkdirExclusive(r, res) ==
    /\ reqs[r].saves[res] = "mkdir"
    /\ dirExists' = TRUE
    /\ reqs' = IF dirExists
               THEN [reqs EXCEPT ![r] =
                        LET req == [@ EXCEPT !.saves[res] = "failed"]
                        IN  IF req.pc = "saving"
                            THEN Done(req, 500, ErrorReply(req.in.ep, "EEXIST: file already exists"))
                            ELSE req]
               ELSE [reqs EXCEPT ![r].saves[res] = "write", ![r].log[res] = Append(@, "dir")]
    /\ UNCHANGED <<files, timers, fired, nextUuid, dl, probe, warned, now, due, boots, orphaned>>

\* ensureUploadsDir: "await fs.mkdir(UPLOADS_DIR, { recursive: true })" completes
SaveMkdir(r, res) ==
    /\ reqs[r].saves[res] = "mkdir"
    /\ dirExists' = TRUE
    /\ reqs' = [reqs EXCEPT ![r].saves[res] = "write", ![r].log[res] = Append(@, "dir")]
    /\ UNCHANGED <<files, timers, fired, nextUuid, dl, probe, warned, now, due, boots, orphaned>>

\* "await fs.writeFile(filePath, imageBuffer)" has written the file; the
\* continuation has not run yet
SaveWrite(r, res) ==
    /\ reqs[r].saves[res] = "write"
    /\ dirExists
    /\ files' = WriteFile(SaveName(r, res), reqs[r].images[res])
    /\ reqs' = [reqs EXCEPT ![r].saves[res] = "written",
                            ![r].log[res] = Append(@, "write"),
                            ![r].fx.writes = @ + 1]
    /\ UNCHANGED <<dirExists, timers, fired, nextUuid, dl, probe, warned, now, due, boots, orphaned>>

\* a failed save that clears the timers its request has set
SaveWriteFailClearsTimers(r, res, partial) ==
    /\ reqs[r].saves[res] = "write"
    /\ files' = IF partial /\ dirExists THEN WriteFile(SaveName(r, res), <<>>) ELSE files
    /\ timers' = timers \ {SaveName(r, x) : x \in DOMAIN reqs[r].saves}
    /\ reqs' = [reqs EXCEPT ![r] =
            LET req == [@ EXCEPT !.saves[res] = "failed"]
            IN  IF req.pc = "saving"
                THEN Done(req, 500, ErrorReply(req.in.ep, "ENOSPC: no space left on device"))
                ELSE req]
    /\ UNCHANGED <<dirExists, fired, nextUuid, dl, probe, warned, now, due, boots, orphaned>>

\* a save whose timer is set before the write is awaited: the failed write
\* leaves a timer behind
SaveWriteFailTimerFirst(r, res, partial) ==
    /\ reqs[r].saves[res] = "write"
    /\ files' = IF partial /\ dirExists THEN WriteFile(SaveName(r, res), <<>>) ELSE files
    /\ timers' = timers \cup {SaveName(r, res)}
    /\ reqs' = [reqs EXCEPT ![r] =
            LET req == [@ EXCEPT !.saves[res] = "failed"]
            IN  IF req.pc = "saving"
                THEN Done(req, 500, ErrorReply(req.in.ep, "ENOSPC: no space left on device"))
                ELSE req]
    /\ UNCHANGED <<dirExists, fired, nextUuid, dl, probe, warned, now, due, boots, orphaned>>

\* "await fs.writeFile(...)" rejects: the file was not created (partial =
\* FALSE) or was created and left truncated (partial = TRUE).  The promise of
\* this save rejects, Promise.all rejects and, unless the request was already
\* answered, the handler's catch replies 500; the other saves go on.
SaveWriteFail(r, res, partial) ==
    /\ reqs[r].saves[res] = "write"
    /\ files' = IF partial /\ dirExists THEN WriteFile(SaveName(r, res), <<>>) ELSE files
    /\ reqs' = [reqs EXCEPT ![r] =
            LET req == [@ EXCEPT !.saves[res] = "failed"]
            IN  IF req.pc = "saving"
                THEN Done(req, 500, ErrorReply(req.in.ep, "ENOSPC: no space left on device"))
                ELSE req]
    /\ UNCHANGED <<dirExists, timers, fired, nextUuid, dl, probe, warned, now, due, boots, orphaned>>

\* the continuation after the write: setTimeout(unlink, 1 hour), then the URL
\* is returned; when this was the last save of a request not yet answered,
\* Promise.all resolves and the handler replies 200 with the links
SaveSchedule(r, res) ==
    /\ reqs[r].saves[res] = "written"
    /\ timers' = timers \cup {SaveName(r, res)}
    /\ due' = (SaveName(r, res) :> now + RetentionTicks) @@ due
    /\ reqs' = [reqs EXCEPT ![r] =
            LET req == [@ EXCEPT !.saves[res] = "done",
                                 !.log[res] = @ \o <<"timer", "url">>,
                                 !.links[res] = saveImageAndGetLink(SaveName(r, res))]
            IN  IF req.pc = "saving" /\ \A x \in DOMAIN req.saves : req.saves[x] = "done"
                THEN Done(req, 200, FileReply(req.in.ep, req.links))
                ELSE req]
    /\ UNCHANGED <<dirExists, files, fired, nextUuid, dl, probe, warned, now, boots, orphaned>>

\* the setTimeout callback: try { await fs.unlink(filePath) } catch { logger.warn }
TimerFire(name) ==
    /\ name \in timers
    /\ timers' = timers \ {name}
    /\ fired' = fired \cup {name}
    /\ files' = Unlink(name)
    /\ UNCHANGED <<dirExists, nextUuid, reqs, dl, probe, warned, now, due, boots, orphaned>>

\* a callback without the try/catch: the rejected unlink is an unhandled
\* rejection and the process ends, dropping the download in progress
TimerFireFailUncaught(name) ==
    /\ name \in timers
    /\ timers' = {}
    /\ warned' = warned \cup {name}
    /\ dl' = [dl EXCEPT !.pc = "dropped"]
    /\ UNCHANGED <<dirExists, files, fired, nextUuid, reqs, probe, now, due, boots, orphaned>>

\* the setTimeout callback when fs.unlink rejects (EPERM, EBUSY, ...): the
\* catch logs "Failed to delete temporary file" and the callback returns; the
\* file stays and nothing deletes it later
TimerFireFail(name) ==
    /\ name \in timers
    /\ timers' = timers \ {name}
    /\ warned' = warned \cup {name}
    /\ UNCHANGED <<dirExists, files, fired, nextUuid, reqs, dl, probe, now, due, boots, orphaned>>

\* the client closes the connection while the handler is saving: nothing
\* listens for it, the saves go on, and the reply finds no one to go to
Abort(r) ==
    /\ reqs[r].pc = "saving"
    /\ reqs' = [reqs EXCEPT ![r].pc = "aborted"]
    /\ UNCHANGED <<storeVars, nextUuid, dl, probe, warned, now, due, boots, orphaned>>

(***************************************************************************)
(* The process ends and is started again.                                  *)
(***************************************************************************)
MaxRestarts == 1

\* a process whose pending timers are kept across the restart
RestartKeepsTimers ==
    /\ boots < MaxRestarts
    /\ boots' = boots + 1
    /\ orphaned' = orphaned \cup {f.name : f \in files}
    /\ reqs' = [r \in 1..MaxReq |-> IdleReq]
    /\ dl' = IdleDl
    /\ UNCHANGED <<dirExists, files, timers, fired, warned, nextUuid, probe, now, due>>

\* the process ends and start() runs again: the timers, which live in the
\* memory of the process, and the requests in progress are gone; temp-images
\* is left as it was, and nothing at startup looks at it
Restart ==
    /\ boots < MaxRestarts
    /\ boots' = boots + 1
    /\ timers' = {}
    /\ orphaned' = orphaned \cup {f.name : f \in files}
    /\ reqs' = [r \in 1..MaxReq |-> IdleReq]
    /\ dl' = IdleDl
    /\ UNCHANGED <<dirExists, files, fired, warned, nextUuid, probe, now, due>>

(***************************************************************************)
(* Time.                                                                   *)
(***************************************************************************)
MaxTime == 4

\* time passes; nothing in the service waits for it but the timers
Tick ==
    /\ now < MaxTime
    /\ now' = now + 1
    /\ UNCHANGED <<storeVars, nextUuid, reqs, dl, probe, warned, due, boots, orphaned>>

\* the event loop runs the callback of a timer once its delay has elapsed,
\* then or later
TimerDue(name) ==
    /\ name \in timers
    /\ now >= due[name]
    /\ TimerFire(name)

\* "expiresIn: 1 hour" of a reply, as the tick it points at
AdvertisedExpiry(r) == reqs[r].sentAt + RetentionTicks

(***************************************************************************)
(* fastify({ requestTimeout: 60000 }) and an upstream that never answers.  *)
(***************************************************************************)
\* a generation request whose first asset fetch never settles
Hangs(in) == in.outs.logo = "hang"

\* the head of a request has arrived and its body is still on the way:
\* the server's requestTimeout clock for it is running
Arrive(r) ==
    /\ reqs[r].pc = "idle"
    /\ reqs' = [reqs EXCEPT ![r].pc = "receiving"]
    /\ UNCHANGED <<storeVars, nextUuid, dl, probe, warned, now, due, boots, orphaned>>

\* requestTimeout elapses before the whole request was received: the
\* server answers 408 and closes the connection; the handler never runs
RequestTimeout(r) ==
    /\ reqs[r].pc = "receiving"
    /\ reqs' = [reqs EXCEPT ![r] = Done(@, 408, [error |-> "Request Timeout"])]
    /\ UNCHANGED <<storeVars, nextUuid, dl, probe, warned, now, due, boots, orphaned>>

\* the rest of the request arrives in time, which stops the requestTimeout
\* clock, and the handler runs: to its reply or to its saves, or, when
\* "await fetch(url)" never settles, to that await, where it stays
ReceiveBody(r, in) ==
    /\ reqs[r].pc = "receiving"
    /\ LET req == IF ValidationIssues(in) = {} /\ Hangs(in)
                  THEN [IdleReq EXCEPT !.in = in, !.pc = "fetching"]
                  ELSE HandleGeneration(in, randomUUID)
       IN  /\ reqs' = [reqs EXCEPT ![r] = req]
           /\ nextUuid' = IF req.pc = "saving" THEN randomUUID ELSE nextUuid
    /\ UNCHANGED <<storeVars, dl, probe, warned, now, due, boots, orphaned>>

(***************************************************************************)
(* GET /download/:filename.                                                *)
(***************************************************************************)
\* a name no request was ever given
GhostName == FileName("football_", 0, "landscape")

\* the names the saves of the requests so far use
SaveNames ==
    {SaveName(r, res) : r \in {x \in 1..MaxReq : reqs[x].sessionId # 0}, res \in Res}

\* the links handed out in 200 replies so far
ReturnedLinks ==
    UNION {{reqs[r].links[res] : res \in DOMAIN reqs[r].links} :
             r \in {x \in 1..MaxReq : reqs[x].status = 200 /\ reqs[x].sessionId # 0}}

\* the paths a client asks for: those of the links it was given, and the
\* download path of any name
DownloadPaths ==
    {l.path : l \in ReturnedLinks} \cup {LinkPath(n) : n \in SaveNames \cup {GhostName}}

\* a reading of the imageRoutes handler without its inner try: the failed
\* access falls to the outer catch
AccessErrorStatusOuterCatch(handler) == IF handler = "imageRoutes" THEN 500 ELSE 404

\* the status replied when "await fs.access(filePath)" throws: the catch of
\* footballRoutes, the inner catch of imageRoutes
AccessErrorStatus(handler) == 404

\* the request is routed and, in the handler of footballRoutes,
\* "await fs.access(filePath)" completes: it throws into the catch (404) or
\* the handler goes on to read the file.  linked records whether the path is
\* that of a link a 200 reply has handed out.
DlAccess(path) ==
    /\ dl.pc \in {"idle", "done"}
    /\ LET handler == RouteGet(path)
           name == path[Len(path)]
           get == [IdleDl EXCEPT !.handler = handler, !.path = path, !.name = name,
                                 !.linked = path \in {l.path : l \in ReturnedLinks}]
       IN  dl' = IF handler = "notFound"
                 THEN [get EXCEPT !.pc = "done", !.status = 404]
                 ELSE IF FileExists(name)
                 THEN [get EXCEPT !.pc = "read", !.found = TRUE]
                 ELSE [get EXCEPT !.pc = "done", !.status = AccessErrorStatus(handler)]
    /\ UNCHANGED <<storeVars, nextUuid, reqs, probe, warned, now, due, boots, orphaned>>

\* the handler of imageRoutes (imageGenerate.ts), for the same path: the
\* inner try around fs.access replies 404
DlAccessImg(name) ==
    /\ dl.pc \in {"idle", "done"}
    /\ dl' = IF FileExists(name)
             THEN [IdleDl EXCEPT !.pc = "read", !.handler = "imageRoutes",
                                 !.path = LinkPath(name), !.name = name, !.found = TRUE]
             ELSE [IdleDl EXCEPT !.pc = "done", !.handler = "imageRoutes",
                                 !.path = LinkPath(name), !.name = name,
                                 !.status = AccessErrorStatus("imageRoutes")]
    /\ UNCHANGED <<storeVars, nextUuid, reqs, probe, warned, now, due, boots, orphaned>>

\* the status a handler's catch around fs.readFile replies with
ReadErrorStatus(handler) == IF handler = "imageRoutes" THEN 500 ELSE 404

\* "await fs.readFile(filePath)" completes: reply.send(fileStream), or the catch
DlRead ==
    /\ dl.pc = "read"
    /\ dl' = IF FileExists(dl.name)
             THEN [dl EXCEPT !.pc = "done", !.status = 200, !.bytes = ReadFile(dl.name)]
             ELSE [dl EXCEPT !.pc = "done", !.status = ReadErrorStatus(dl.handler)]
    /\ UNCHANGED <<storeVars, nextUuid, reqs, probe, warned, now, due, boots, orphaned>>

(***************************************************************************)
(* Inputs.                                                                 *)
(***************************************************************************)
\* every asset fetch of a body with n games ends the same way
UniformOuts(n, o) ==
    [logo |-> o, capa |-> o, fundo |-> o,
     home |-> [i \in 1..n |-> o], away |-> [i \in 1..n |-> o],
     order |-> [i \in 1..n |-> <<1, 2>>]]

Query(b, f) == [base64 |-> b, file |-> f]

Input(ep, body, query, outs, browser) ==
    [ep |-> ep, body |-> body, query |-> query, outs |-> outs, browser |-> browser]

\* n copies of one game
Jogos(n, jogo) == [i \in 1..n |-> jogo]

\* a well-formed body for an endpoint
SampleBody(ep) ==
    IF ep = "movie"
    THEN MovieBody(GoodUrl, GoodUrl, NoUrl)
    ELSE FootballBody(GoodUrl, Jogos(1, Jogo(<<"a", "a">>, GoodUrl, <<"a">>, GoodUrl)), NoUrl)

\* the requests of the artifact-store specification: a well-formed body per
\* endpoint, every asset resolving, in file mode or in base64 mode
StoreInputs ==
    {Input(ep, SampleBody(ep), q, UniformOuts(1, "image"), "screenshot") :
        ep \in Endpoints, q \in {Query(QAbsent, QAbsent), Query("true", QAbsent)}}

(***************************************************************************)
(* Spec: the artifact store under concurrent requests.  Request 1 is of    *)
(* any endpoint; the later ones are of the endpoint that saves one file.   *)
(***************************************************************************)
StoreInputsOf(r) ==
    IF r = 1 THEN StoreInputs ELSE {in \in StoreInputs : in.ep = "html"}

Next ==
    \/ \E r \in 1..MaxReq : \E in \in StoreInputsOf(r) : Receive(r, in)
    \/ \E r \in 1..MaxReq : \E res \in DOMAIN reqs[r].saves : SaveAccess(r, res)
    \/ \E r \in 1..MaxReq : \E res \in DOMAIN reqs[r].saves : SaveMkdir(r, res)
    \/ \E r \in 1..MaxReq : \E res \in DOMAIN reqs[r].saves : SaveWrite(r, res)
    \/ \E r \in 1..MaxReq : \E res \in DOMAIN reqs[r].saves :
          \E partial \in BOOLEAN : SaveWriteFail(r, res, partial)
    \/ \E r \in 1..MaxReq : \E res \in DOMAIN reqs[r].saves : SaveSchedule(r, res)
    \/ \E name \in timers : TimerFire(name)

Spec == Init /\ [][Next]_vars

(***************************************************************************)
(* SpecLive: two requests whose clients may go away, timers whose unlink   *)
(* may fail, and a process that keeps running: a continuation that is      *)
(* ready runs, and a timer that is set goes off.                           *)
(***************************************************************************)
LiveReqs == 1..2
\* request 1 saves three files, request 2 one
LiveInputsOf(r) ==
    {in \in StoreInputs : in.query = Query(QAbsent, QAbsent)
                          /\ in.ep = (IF r = 1 THEN "football" ELSE "html")}
LiveNames ==
    {FileName(Prefix("football"), u, res) : u \in LiveReqs, res \in Res}
    \cup {FileName(Prefix("html"), u, "portrait") : u \in LiveReqs}

\* the deletion callback of a name runs, its unlink succeeding or failing
TimerRuns(name) == TimerFire(name) \/ TimerFireFail(name)

NextLive ==
    \/ \E r \in LiveReqs : \E in \in LiveInputsOf(r) : Receive(r, in)
    \/ \E r \in LiveReqs : Abort(r)
    \/ \E r \in LiveReqs : \E res \in DOMAIN reqs[r].saves : SaveAccess(r, res)
    \/ \E r \in LiveReqs : \E res \in DOMAIN reqs[r].saves : SaveMkdir(r, res)
    \/ \E r \in LiveReqs : \E res \in DOMAIN reqs[r].saves : SaveWrite(r, res)
    \/ \E r \in LiveReqs : \E res \in DOMAIN reqs[r].saves :
          \E partial \in BOOLEAN : SaveWriteFail(r, res, partial)
    \/ \E r \in LiveReqs : \E res \in DOMAIN reqs[r].saves : SaveSchedule(r, res)
    \/ \E name \in timers : TimerFire(name)
    \/ \E name \in timers : TimerFireFail(name)

SpecLive ==
    /\ Init /\ [][NextLive]_vars
    /\ \A r \in LiveReqs : \A res \in Res :
          WF_vars(res \in DOMAIN reqs[r].saves /\ SaveSchedule(r, res))
    /\ \A name \in LiveNames : WF_vars(TimerRuns(name))

(***************************************************************************)
(* SpecDl: one generation request, its timers, and downloads through       *)
(* either download handler.                                                *)
(***************************************************************************)
NextDl ==
    \/ \E in \in StoreInputs : Receive(1, in)
    \/ \E res \in DOMAIN reqs[1].saves : SaveAccess(1, res)
    \/ \E res \in DOMAIN reqs[1].saves : SaveMkdir(1, res)
    \/ \E res \in DOMAIN reqs[1].saves : SaveWrite(1, res)
    \/ \E res \in DOMAIN reqs[1].saves : \E partial \in BOOLEAN : SaveWriteFail(1, res, partial)
    \/ \E res \in DOMAIN reqs[1].saves : SaveSchedule(1, res)
    \/ \E name \in timers : TimerFire(name)
    \/ \E name \in timers : TimerFireFail(name)
    \/ \E path \in DownloadPaths : DlAccess(path)
    \/ \E name \in SaveNames \cup {GhostName} : DlAccessImg(name)
    \/ DlRead

SpecDl == Init /\ [][NextDl]_vars

(***************************************************************************)
(* SpecApi: one generation request with every kind of body and query; a    *)
(* request answered inline may be sent again, unchanged but for the query, *)
(* in file mode.                                                           *)
(***************************************************************************)
GoodJogo == Jogo(<<"a", "a">>, GoodUrl, <<"a">>, GoodUrl)
MarkupJogo == Jogo(<<"<", "a">>, GoodUrl, <<"a">>, GoodUrl)

FootballBodies ==
    {FootballBody(GoodUrl, Jogos(n, GoodJogo), NoUrl) : n \in {1, JogosMax, MaxJogosSent}}
    \cup { FootballBody(GoodUrl, Jogos(1, MarkupJogo), NoUrl),
           FootballBody(BadUrl, Jogos(1, GoodJogo), NoUrl),
           FootballBody(GoodUrl, Jogos(1, Jogo(<<"a">>, GoodUrl, <<"a">>, BadUrl)), NoUrl),
           FootballBody(GoodUrl, Jogos(1, GoodJogo), GoodUrl) }

MovieBodies ==
    { MovieBody(GoodUrl, GoodUrl, NoUrl), MovieBody(GoodUrl, BadUrl, NoUrl),
      MovieBody(GoodUrl, GoodUrl, GoodUrl) }

Queries == {Query(b, f) : b \in QueryValues, f \in QueryValues}

ApiInputs ==
    {Input("football", b, q, UniformOuts(Len(b.jogos), o), "screenshot") :
        b \in FootballBodies, q \in Queries, o \in {"image", "neterr"}}
    \cup {Input("html", b, q, UniformOuts(Len(b.jogos), "image"), br) :
        b \in FootballBodies, q \in Queries, br \in {"screenshot", "missing"}}
    \cup {Input("movie", b, q, UniformOuts(0, o), "screenshot") :
        b \in MovieBodies, q \in Queries, o \in {"image", "neterr"}}

\* the body of request 1, answered inline, is sent again in file mode and
\* its asset fetches end as before
Resend ==
    /\ reqs[1].pc = "done" /\ reqs[1].status = 200
    /\ reqs[1].in.query = Query("true", QAbsent)
    /\ Receive(2, [reqs[1].in EXCEPT !.query = Query(QAbsent, QAbsent)])

NextApi ==
    \/ \E in \in ApiInputs : Receive(1, in)
    \/ Resend
    \/ \E r \in 1..2 : \E res \in DOMAIN reqs[r].saves : SaveAccess(r, res)
    \/ \E r \in 1..2 : \E res \in DOMAIN reqs[r].saves : SaveMkdir(r, res)
    \/ \E r \in 1..2 : \E res \in DOMAIN reqs[r].saves : SaveWrite(r, res)
    \/ \E r \in 1..2 : \E res \in DOMAIN reqs[r].saves :
          \E partial \in BOOLEAN : SaveWriteFail(r, res, partial)
    \/ \E r \in 1..2 : \E res \in DOMAIN reqs[r].saves : SaveSchedule(r, res)
    \/ \E name \in timers : TimerFire(name)

SpecApi == Init /\ [][NextApi]_vars

(***************************************************************************)
(* SpecPure: the asset fetcher and the render pipelines applied once to    *)
(* every label, fetch outcome and set of failing URLs within the bounds.   *)
(***************************************************************************)
\* the strings a client can send as a team name
Names == UNION {[1..k -> Alphabet] : k \in 0..MaxNameLen}

PureInputs ==
    {Input("football",
           FootballBody(GoodUrl, Jogos(1, Jogo(th, GoodUrl, <<"a">>, GoodUrl)), fundo),
           Query("true", QAbsent),
           [logo |-> ol, capa |-> "image", fundo |-> of, home |-> <<oh>>, away |-> <<oa>>,
            order |-> <<<<1, 2>>>>],
           "screenshot") :
        th \in Names, fundo \in {NoUrl, GoodUrl},
        ol \in {"image", "neterr"}, of \in {"image", "http"},
        oh \in {"image", "neterr"}, oa \in {"image", "garbage"}}
    \cup {Input("movie", MovieBody(GoodUrl, GoodUrl, fundo), Query("true", QAbsent),
                [logo |-> ol, capa |-> oc, fundo |-> of, home |-> <<>>, away |-> <<>>,
                 order |-> <<>>],
                "screenshot") :
        fundo \in {NoUrl, GoodUrl}, ol \in FetchOutcomes, oc \in FetchOutcomes,
        of \in {"image", "http"}}

\* one call of downloadImageWithFallback (footballGenerate.ts, movieGenerate.ts)
ProbeDownload(outcome, text) ==
    /\ probe.fn = "none"
    /\ probe' = [fn |-> "downloadImageWithFallback", outcome |-> outcome, text |-> text,
                 calls |-> DownloadCalls(outcome),
                 result |-> downloadImageWithFallback(outcome, 100, 100, text)]
    /\ UNCHANGED <<storeVars, nextUuid, reqs, dl, warned, now, due, boots, orphaned>>

\* one call of downloadImageWithFallback (imageGenerate.ts)
ProbeDownloadImg(outcome, text) ==
    /\ probe.fn = "none"
    /\ probe' = [fn |-> "downloadImageWithFallback(imageGenerate)",
                 outcome |-> outcome, text |-> text,
                 result |-> downloadImageWithFallbackImg(outcome, 100, 100, text)]
    /\ UNCHANGED <<storeVars, nextUuid, reqs, dl, warned, now, due, boots, orphaned>>

\* one inline generation request: the three renders and the reply
ProbeGenerate(in) ==
    /\ probe.fn = "none"
    /\ probe' = [fn |-> "generate", in |-> in, rendered |-> RenderAll(in),
                 reply |-> HandleGeneration(in, randomUUID)]
    /\ UNCHANGED <<storeVars, nextUuid, reqs, dl, warned, now, due, boots, orphaned>>

\* inline football requests whose home logo cannot be fetched
FailingLogoInputs ==
    {Input("football",
           FootballBody(GoodUrl, Jogos(1, Jogo(th, GoodUrl, <<"a">>, GoodUrl)), NoUrl),
           Query("true", QAbsent),
           [logo |-> "image", capa |-> "image", fundo |-> "image",
            home |-> <<"neterr">>, away |-> <<"image">>, order |-> <<<<2, 1>>>>],
           "screenshot") : th \in Names}

\* two inline generation requests, each handled on its own
ProbeGeneratePair(in1, in2) ==
    /\ probe.fn = "none"
    /\ probe' = [fn |-> "generatePair",
                 first |-> HandleGeneration(in1, randomUUID),
                 second |-> HandleGeneration(in2, randomUUID)]
    /\ UNCHANGED <<storeVars, nextUuid, reqs, dl, warned, now, due, boots, orphaned>>

\* the texts escapeXml is applied to: every string of the five special
\* characters and a letter, and texts that already hold entities
EscapeAlphabet == {"a", "&", "<", ">", "\"", "'"}
EntityLikeTexts ==
    XmlEntities \cup { <<"&", "a", "m", "p", ";", "a", "m", "p", ";">>,
                       <<"&", "a", "m", "p", ";", "l", "t", ";">>,
                       <<"a", "&", "l", "t", ";", "<">> }
EscapeInputs == UNION {[1..k -> EscapeAlphabet] : k \in 0..MaxEscapeLen} \cup EntityLikeTexts

\* one call of escapeXml
ProbeEscape(text) ==
    /\ probe.fn = "none"
    /\ probe' = [fn |-> "escapeXml", text |-> text, result |-> escapeXml(text)]
    /\ UNCHANGED <<storeVars, nextUuid, reqs, dl, warned, now, due, boots, orphaned>>

\* one team name embedded in the three kinds of markup: the overlay SVG, the
\* placeholder SVG of its logo, the HTML document
ProbeEmbed(teamName) ==
    /\ probe.fn = "none"
    /\ probe' = [fn |-> "embed", text |-> teamName,
                 overlay |-> createTeamDisplay(teamName),
                 placeholder |-> createPlaceholderImage(100, 100, "#666666",
                                    Substring0(teamName, LabelLen)).text,
                 html |-> HtmlTeamName(teamName)]
    /\ UNCHANGED <<storeVars, nextUuid, reqs, dl, warned, now, due, boots, orphaned>>

\* inline requests to /generate-football-html, for every browser outcome
HtmlInputs ==
    {Input("html", FootballBody(GoodUrl, Jogos(n, Jogo(th, GoodUrl, <<"a">>, GoodUrl)), NoUrl),
           Query("true", QAbsent), UniformOuts(n, "image"), br) :
        n \in 0..JogosMax, th \in {<<"a">>, <<"<", "a">>}, br \in BrowserOutcomes}

\* one call of htmlToImage and the reply of the request that made it
ProbeHtmlToImage(in) ==
    /\ probe.fn = "none"
    /\ probe' = [fn |-> "htmlToImage", in |-> in, html |-> generateHTML(in.body),
                 result |-> htmlToImage(generateHTML(in.body), in.browser, 1080, 1920),
                 reply |-> HandleGeneration(in, randomUUID)]
    /\ UNCHANGED <<storeVars, nextUuid, reqs, dl, warned, now, due, boots, orphaned>>

\* the texts wrapText is applied to: words of the letter "a" and spaces
WrapTexts == UNION {[1..k -> {"a", " "}] : k \in 0..MaxTextLen}

\* one call of wrapText (movieGenerate.ts)
ProbeWrapText(text, maxCharsPerLine) ==
    /\ probe.fn = "none"
    /\ probe' = [fn |-> "wrapText", text |-> text, maxCharsPerLine |-> maxCharsPerLine,
                 lines |-> wrapText(text, maxCharsPerLine)]
    /\ UNCHANGED <<storeVars, nextUuid, reqs, dl, warned, now, due, boots, orphaned>>

\* one call of wrapText (imageGenerate.ts)
ProbeWrapTextImg(text, maxCharsPerLine) ==
    /\ probe.fn = "none"
    /\ probe' = [fn |-> "wrapText(imageGenerate)", text |-> text,
                 maxCharsPerLine |-> maxCharsPerLine,
                 lines |-> wrapTextImg(text, maxCharsPerLine)]
    /\ UNCHANGED <<storeVars, nextUuid, reqs, dl, warned, now, due, boots, orphaned>>

\* no probe has been made yet
Unprobed == probe.fn = "none"

\* the orders the two downloads of a game can settle in
SettleOrders == {<<1, 2>>, <<2, 1>>}

\* one or two games whose four teams have different names, each logo fetched
\* or replaced by its placeholder, the two downloads of each game settling in
\* either order
TeamLogoInputs ==
    LET games == << Jogo(<<"a">>, GoodUrl, <<"a", "a">>, GoodUrl),
                    Jogo(<<"a", "a", "a">>, GoodUrl, <<"a", "<">>, GoodUrl) >>
    IN  { [jogos |-> SubSeq(games, 1, n),
           outs |-> [logo |-> "image", capa |-> "image", fundo |-> "image",
                     home |-> oh, away |-> oa, order |-> ord]] :
            n \in 1..2, oh \in [1..2 -> {"image", "neterr"}],
            oa \in [1..2 -> {"image", "neterr"}], ord \in [1..2 -> SettleOrders] }

\* the logo loop of createFootballScheduleImage and the buffers each row of
\* the schedule composites
ProbeTeamLogos(jogos, outs) ==
    /\ probe.fn = "none"
    /\ LET teamLogos == TeamLogos(jogos, outs, Len(jogos))
       IN  probe' = [fn |-> "teamLogos", jogos |-> jogos, outs |-> outs,
                     teamLogos |-> teamLogos,
                     rows |-> [i \in 1..Len(jogos) |-> RowLogos(teamLogos, i - 1)]]
    /\ UNCHANGED <<storeVars, nextUuid, reqs, dl, warned, now, due, boots, orphaned>>

\* const UPLOADS_DIR = path.join(process.cwd(), "temp-images"), as its
\* segments; the process runs in /app
UPLOADS_DIR == <<"app", "temp-images">>

\* the regular files on the disk of the probe: one artifact in temp-images,
\* and two files of the deployment outside it
DiskFiles ==
    { UPLOADS_DIR \o <<"a.jpg">>, <<"app", "package.json">>, <<"app", ".env">> }

\* the pieces of the last segment of a request path: it holds no literal
\* "/", which would end the segment; "%2F" is the escape of "/"
ParamTokens == {"a.jpg", "package.json", "..", "%2F"}
MaxParamLen == 4
RawParams == UNION {[1..k -> ParamTokens] : k \in 1..MaxParamLen}

\* request.params.filename: the router hands the handler the segment with
\* its percent escapes decoded
DecodeParam(raw) == [k \in 1..Len(raw) |-> IF raw[k] = "%2F" THEN "/" ELSE raw[k]]

\* the pieces of a string between its "/" characters, the piece under
\* construction last
RECURSIVE SplitSlash(_, _, _)
SplitSlash(text, k, acc) ==
    IF k > Len(text) THEN acc
    ELSE IF text[k] = "/" THEN SplitSlash(text, k + 1, Append(acc, <<>>))
    ELSE SplitSlash(text, k + 1,
             [acc EXCEPT ![Len(acc)] = Append(@, text[k])])

\* path.normalize on segments: empty and "." segments are dropped, ".."
\* removes the segment before it
RECURSIVE Normalize(_, _, _)
Normalize(segs, k, acc) ==
    IF k > Len(segs) THEN acc
    ELSE IF segs[k] \in {<<>>, <<".">>} THEN Normalize(segs, k + 1, acc)
    ELSE IF segs[k] = <<"..">>
         THEN Normalize(segs, k + 1, IF acc = <<>> THEN acc ELSE SubSeq(acc, 1, Len(acc) - 1))
    ELSE Normalize(segs, k + 1, Append(acc, segs[k]))

\* path.join(dir, filename): the two are concatenated with a "/" and the
\* result is normalized
PathJoin(dir, filename) ==
    Normalize([k \in 1..Len(dir) |-> <<dir[k]>>] \o SplitSlash(filename, 1, <<<<>>>>), 1, <<>>)

\* the download handler for one filename parameter: path.join, fs.access,
\* fs.readFile; the catch answers 404 (a directory passes access and fails
\* the read)
ProbeDownloadPath(raw) ==
    /\ probe.fn = "none"
    /\ LET filename == DecodeParam(raw)
           filePath == PathJoin(UPLOADS_DIR, filename)
       IN  probe' = [fn |-> "downloadPath", raw |-> raw, filename |-> filename,
                     filePath |-> filePath,
                     status |-> IF \E f \in DiskFiles :
                                      filePath = [k \in 1..Len(f) |-> <<f[k]>>]
                                THEN 200 ELSE 404]
    /\ UNCHANGED <<storeVars, nextUuid, reqs, dl, warned, now, due, boots, orphaned>>

NextPure ==
    \/ Unprobed /\ \E text \in WrapTexts : \E m \in 0..MaxBudget : ProbeWrapText(text, m)
    \/ Unprobed /\ \E text \in WrapTexts : \E m \in 0..MaxBudget : ProbeWrapTextImg(text, m)
    \/ Unprobed /\ \E in \in HtmlInputs : ProbeHtmlToImage(in)
    \/ Unprobed /\ \E text \in EscapeInputs : ProbeEscape(text)
    \/ Unprobed /\ \E teamName \in Names : ProbeEmbed(teamName)
    \/ Unprobed /\ \E outcome \in FetchOutcomes : \E text \in Names : ProbeDownload(outcome, text)
    \/ Unprobed /\ \E outcome \in FetchOutcomes : \E text \in Names : ProbeDownloadImg(outcome, text)
    \/ Unprobed /\ \E in \in PureInputs : ProbeGenerate(in)
    \/ Unprobed /\ \E in1 \in FailingLogoInputs : \E in2 \in FailingLogoInputs : ProbeGeneratePair(in1, in2)
    \/ Unprobed /\ \E in \in TeamLogoInputs : ProbeTeamLogos(in.jogos, in.outs)
    \/ Unprobed /\ \E raw \in RawParams : ProbeDownloadPath(raw)

SpecPure == Init /\ [][NextPure]_vars

(***************************************************************************)
(* SpecRestart: one request at a time in file mode, its saves and timers,  *)
(* and a process that may end and start again at any point.                *)
(***************************************************************************)
RestartInputs == {in \in StoreInputs : in.query = Query(QAbsent, QAbsent)}

NextRestart ==
    \/ \E in \in RestartInputs : Receive(1, in)
    \/ \E res \in DOMAIN reqs[1].saves : SaveAccess(1, res)
    \/ \E res \in DOMAIN reqs[1].saves : SaveMkdir(1, res)
    \/ \E res \in DOMAIN reqs[1].saves : SaveWrite(1, res)
    \/ \E res \in DOMAIN reqs[1].saves : SaveSchedule(1, res)
    \/ \E name \in timers : TimerFire(name)
    \/ Restart

SpecRestart == Init /\ [][NextRestart]_vars

(***************************************************************************)
(* SpecClock: one file-mode request, its saves and its timers, with time   *)
(* passing between any two steps.                                          *)
(***************************************************************************)
NextClock ==
    \/ \E in \in RestartInputs : Receive(1, in)
    \/ \E res \in DOMAIN reqs[1].saves : SaveAccess(1, res)
    \/ \E res \in DOMAIN reqs[1].saves : SaveMkdir(1, res)
    \/ \E res \in DOMAIN reqs[1].saves : SaveWrite(1, res)
    \/ \E res \in DOMAIN reqs[1].saves : SaveSchedule(1, res)
    \/ \E name \in timers : TimerDue(name)
    \/ Tick

SpecClock == Init /\ [][NextClock]_vars

(***************************************************************************)
(* SpecHang: one request that arrives slowly or whole, with assets that    *)
(* resolve or with a logo fetch that never settles.  The process keeps     *)
(* running: a request being received is completed or timed out, and every  *)
(* filesystem call and timer of a save completes.                          *)
(***************************************************************************)
HangInputs ==
    StoreInputs \cup
    {Input(ep, SampleBody(ep), q, [UniformOuts(1, "image") EXCEPT !.logo = "hang"],
           "screenshot") :
        ep \in {"football", "movie"}, q \in {Query(QAbsent, QAbsent), Query("true", QAbsent)}}

Receiving(r) == RequestTimeout(r) \/ \E in \in HangInputs : ReceiveBody(r, in)

NextHang ==
    \/ Arrive(1)
    \/ RequestTimeout(1)
    \/ \E in \in HangInputs : ReceiveBody(1, in)
    \/ \E res \in DOMAIN reqs[1].saves : SaveAccess(1, res)
    \/ \E res \in DOMAIN reqs[1].saves : SaveMkdir(1, res)
    \/ \E res \in DOMAIN reqs[1].saves : SaveWrite(1, res)
    \/ \E res \in DOMAIN reqs[1].saves : SaveSchedule(1, res)
    \/ \E name \in timers : TimerFire(name)

SpecHang ==
    /\ Init /\ [][NextHang]_vars
    /\ WF_vars(Receiving(1))
    /\ \A res \in Res :
        /\ WF_vars(res \in DOMAIN reqs[1].saves /\ SaveAccess(1, res))
        /\ WF_vars(res \in DOMAIN reqs[1].saves /\ SaveMkdir(1, res))
        /\ WF_vars(res \in DOMAIN reqs[1].saves /\ SaveWrite(1, res))
        /\ WF_vars(res \in DOMAIN reqs[1].saves /\ SaveSchedule(1, res))

(***************************************************************************)
(* Claims about the artifact store and the download endpoint.              *)
(***************************************************************************)
DownloadHandlers == {"footballRoutes", "imageRoutes"}

C2_DeletedStaysDeleted == \A name \in fired : ~FileExists(name)

\* C2 witness: a name has been deleted and a save of another request has since
\* written its file.
C2_Witness ==
    \E r1 \in 1..MaxReq, r2 \in 1..MaxReq :
        /\ r1 # r2
        /\ reqs[r1].sessionId # 0 /\ reqs[r2].sessionId > reqs[r1].sessionId
        /\ \E res \in DOMAIN reqs[r1].saves : SaveName(r1, res) \in fired
        /\ \E res \in DOMAIN reqs[r2].saves :
              reqs[r2].saves[res] = "done" /\ FileExists(SaveName(r2, res))

\* C5: a save has returned its URL only after the directory was ensured, the
\* buffer written under its name and the deletion timer of that name set, in
\* that order; a save whose write failed has set no timer and returned no URL.
C5_SaveOrder ==
    \A r \in 1..MaxReq : \A res \in DOMAIN reqs[r].saves :
        LET name == SaveName(r, res)
            req == reqs[r]
        IN  /\ req.links[res] # <<>> =>
                  /\ req.log[res] = <<"dir", "write", "timer", "url">>
                  /\ req.links[res].path[3] = name
                  /\ name \in timers \cup fired
                  /\ (name \in timers => FileExists(name) /\ ReadFile(name) = req.images[res])
            /\ req.saves[res] = "failed" =>
                  /\ req.links[res] = <<>>
                  /\ name \notin timers \cup fired
            /\ (name \in timers \cup fired) => req.links[res] # <<>>

\* C5 witness: one save of a request has returned its URL and another save of
\* the same request has failed at the write.
C5_Witness ==
    \E r \in 1..MaxReq : \E a \in DOMAIN reqs[r].saves, b \in DOMAIN reqs[r].saves :
        /\ reqs[r].links[a] # <<>>
        /\ reqs[r].saves[b] = "failed"

\* C6: after a file-mode 200, a GET of the path of a returned link that is
\* answered before that file's deletion timer has run is served by the
\* registered download route and answers 200 with the bytes saved for that
\* resolution.
C6_RoundTrip ==
    \A res \in DOMAIN reqs[1].links :
        ( /\ reqs[1].status = 200
          /\ dl.pc = "done"
          /\ dl.linked
          /\ dl.path = reqs[1].links[res].path
          /\ SaveName(1, res) \notin fired )
        => ( /\ dl.handler = "footballRoutes"
             /\ dl.status = 200
             /\ dl.bytes = reqs[1].images[res] )

\* C6 witness: the square link of a football request has been downloaded.
C6_Witness ==
    /\ reqs[1].status = 200 /\ reqs[1].in.ep = "football"
    /\ dl.pc = "done" /\ dl.linked /\ dl.status = 200
    /\ dl.path = reqs[1].links["square"].path

(***************************************************************************)
(* Claims about the replies of the generation endpoints (SpecApi).         *)
(***************************************************************************)
Answered(r) == reqs[r].pc = "done"
Inline(resp) == "images" \in DOMAIN resp \/ "image" \in DOMAIN resp
Linked(resp) == "downloads" \in DOMAIN resp \/ "download" \in DOMAIN resp

\* C7 as stated: base64=true gives the inline reply, file=true gives the
\* download-link reply, and neither gives the download-link reply.
C7_AsStated ==
    \A r \in 1..MaxReq :
        (Answered(r) /\ reqs[r].status = 200) =>
            LET q == reqs[r].in.query
            IN  /\ (q.base64 = "true" => Inline(reqs[r].resp) /\ ~Linked(reqs[r].resp))
                /\ (q.file = "true" => Linked(reqs[r].resp) /\ ~Inline(reqs[r].resp))
                /\ (q.base64 # "true" /\ q.file # "true"
                        => Linked(reqs[r].resp) /\ ~Inline(reqs[r].resp))

\* C7, amended: a 200 reply is inline exactly when base64=true, whatever
\* file is; in every other case (file=true alone, or neither flag true) it
\* carries download links written to disk.
C7_Base64WinsOverFile ==
    \A r \in 1..MaxReq :
        (Answered(r) /\ reqs[r].status = 200) =>
            LET q == reqs[r].in.query
            IN  IF q.base64 = "true"
                THEN Inline(reqs[r].resp) /\ ~Linked(reqs[r].resp) /\ reqs[r].fx.writes = 0
                ELSE /\ Linked(reqs[r].resp) /\ ~Inline(reqs[r].resp)
                     /\ reqs[r].fx.writes = Cardinality(EpRes(reqs[r].in.ep))

\* C7 witness: a request with base64=true and file=true was answered 200
\* inline.
C7_Witness ==
    /\ Answered(1) /\ reqs[1].status = 200
    /\ reqs[1].in.query = Query("true", "true")
    /\ Inline(reqs[1].resp)

\* the two reply shapes with all three resolutions
ThreeImages(resp) ==
    /\ DOMAIN resp = {"success", "images", "message"}
    /\ resp.success = TRUE
    /\ DOMAIN resp.images = Res
    /\ \A res \in Res : resp.images[res] # <<>>
ThreeLinks(resp) ==
    /\ DOMAIN resp = {"success", "downloads", "message", "expiresIn"}
    /\ resp.success = TRUE
    /\ DOMAIN resp.downloads = Res
    /\ \A res \in Res : resp.downloads[res] # <<>>

\* the two reply shapes of the HTML endpoint
OneImage(resp) ==
    /\ DOMAIN resp = {"success", "image", "message"}
    /\ resp.success = TRUE /\ resp.image # <<>>
OneLink(resp) ==
    /\ DOMAIN resp = {"success", "download", "message", "expiresIn"}
    /\ resp.success = TRUE /\ resp.download # <<>>

\* C8 as stated: every 200 reply of a generation endpoint is either
\* {success, images} or {success, downloads, expiresIn}, with all three
\* resolutions, according to the mode.
C8_AsStated ==
    \A r \in 1..MaxReq :
        (Answered(r) /\ reqs[r].status = 200) =>
            IF UseBase64(reqs[r].in.query)
            THEN ThreeImages(reqs[r].resp)
            ELSE ThreeLinks(reqs[r].resp)

\* C8, amended: every 200 reply of /generate-football-schedule and of
\* /generate-images has exactly one of the two shapes with all three
\* resolutions, according to the mode; every 200 reply of
\* /generate-football-html has the one-image or the one-link shape (portrait
\* only), according to the mode.
C8_ReplyShapes ==
    \A r \in 1..MaxReq :
        (Answered(r) /\ reqs[r].status = 200) =>
            LET resp == reqs[r].resp
                inline == reqs[r].in.query.base64 = "true"
            IN  IF reqs[r].in.ep = "html"
                THEN IF inline THEN OneImage(resp) ELSE OneLink(resp)
                ELSE IF inline THEN ThreeImages(resp) ELSE ThreeLinks(resp)

\* C8 witness: a 200 reply with three links, a 200 reply with three images
\* of the same body, both from /generate-football-schedule.
C8_Witness ==
    /\ Answered(1) /\ reqs[1].status = 200 /\ reqs[1].in.ep = "football"
    /\ ThreeImages(reqs[1].resp)
    /\ Answered(2) /\ reqs[2].status = 200 /\ ThreeLinks(reqs[2].resp)

\* the inline payload of a 200 reply for a resolution
InlinePayload(req, res) ==
    IF req.in.ep = "html" THEN req.resp.image ELSE req.resp.images[res]

\* C9: when a body answered inline is sent again in file mode with the same
\* fetch outcomes, each file the second request has written holds, until its
\* timer runs, exactly the bytes whose base64 data URL the first reply
\* carried for that resolution.
C9_SameBytes ==
    \A res \in DOMAIN reqs[2].saves :
        ( /\ reqs[2].saves[res] \in {"written", "done"}
          /\ SaveName(2, res) \notin fired )
        => ( /\ FileExists(SaveName(2, res))
             /\ DataUrl(ReadFile(SaveName(2, res))) = InlinePayload(reqs[1], res) )

\* C9 witness: the second request was answered 200 with its three files on
\* disk, after a football request with failing fetches was answered inline.
C9_Witness ==
    /\ Answered(2) /\ reqs[2].status = 200 /\ reqs[2].in.ep = "football"
    /\ reqs[2].in.outs.logo = "neterr"
    /\ \A res \in Res : FileExists(SaveName(2, res))

\* a body or query the schemas reject
TooManyJogos(in) == in.ep # "movie" /\ Len(in.body.jogos) > 5
MalformedUrl(in) ==
    \/ in.body.fundoUrl = BadUrl
    \/ in.ep = "movie" /\ (in.body.logoUrl = BadUrl \/ in.body.capaFilmeUrl = BadUrl)
    \/ in.ep # "movie" /\ in.body.logoEmpresaUrl = BadUrl
    \/ in.ep # "movie" /\ \E i \in DOMAIN in.body.jogos :
            in.body.jogos[i].logoHomeUrl = BadUrl \/ in.body.jogos[i].logoAwayUrl = BadUrl
RepeatedParam(in) == in.query.base64 = QRepeated \/ in.query.file = QRepeated

\* C10: a request whose body or query fails its schema (more than five
\* jogos, a malformed URL, a repeated query parameter) is answered 400 with
\* the validation issues, and nothing was fetched, rendered or written for
\* it.
C10_InvalidIs400 ==
    \A r \in 1..MaxReq :
        (reqs[r].pc # "idle"
           /\ (TooManyJogos(reqs[r].in) \/ MalformedUrl(reqs[r].in) \/ RepeatedParam(reqs[r].in)))
        => ( /\ Answered(r)
             /\ reqs[r].status = 400
             /\ reqs[r].resp.details.issues # {}
             /\ reqs[r].fx = NoEffects
             /\ reqs[r].sessionId = 0 )

\* C10 witness: a football body with more than five jogos was answered 400.
C10_Witness ==
    /\ Answered(1) /\ reqs[1].status = 400
    /\ reqs[1].in.ep = "football" /\ Len(reqs[1].in.body.jogos) > 5

(***************************************************************************)
(* Claims about the asset fetcher and the render pipelines (SpecPure).     *)
(***************************************************************************)
\* C3: whatever the outcome of the fetch and whatever the fallback label,
\* downloadImageWithFallback resolves, and the buffer it returns decodes
\* when the caller hands it to sharp.
C3_FallbackUnconditional ==
    probe.fn \in {"downloadImageWithFallback", "downloadImageWithFallback(imageGenerate)"}
    => /\ probe.result.ok
       /\ SharpDecodes(probe.result.buf)

\* C4: for every accepted body, every set of failing asset URLs and every
\* team name, each of the three renders resolves with an image and the
\* endpoint answers 200.
C4_RenderSurvivesFailures ==
    (probe.fn = "generate" /\ ValidationIssues(probe.in) = {})
    => /\ \A res \in Res : probe.rendered[res].ok /\ probe.rendered[res].bytes # <<>>
       /\ probe.reply.status = 200

(***************************************************************************)
(* Claims about failures inside the generation handlers.                   *)
(***************************************************************************)
RenderFailed(req) ==
    /\ req.fx.renders > 0
    /\ \E res \in EpRes(req.in.ep) : ~RenderAll(req.in)[res].ok
SaveFailed(req) == \E res \in DOMAIN req.saves : req.saves[res] = "failed"

\* C11: a request one of whose renders or saves threw has been answered,
\* with status 500 and a body of success:false and a message, and is never
\* answered 200, whatever its other saves do afterwards.
C11_FailureIs500 ==
    \A r \in 1..MaxReq :
        (reqs[r].pc # "idle" /\ (RenderFailed(reqs[r]) \/ SaveFailed(reqs[r])))
        => ( /\ Answered(r)
             /\ reqs[r].status = 500
             /\ reqs[r].resp.success = FALSE
             /\ reqs[r].resp.message # "" )

\* C11 witness: a request was answered 500 after one save failed, and
\* another save of it has completed since.
C11_Witness ==
    /\ Answered(1) /\ reqs[1].status = 500 /\ SaveFailed(reqs[1])
    /\ \E res \in DOMAIN reqs[1].saves : reqs[1].saves[res] = "done"

\* C12: the bodies of the 500 replies to two render failures are the same,
\* whatever the underlying library errors were.
C12_GenericMessage ==
    (probe.fn = "generatePair" /\ probe.first.status = 500 /\ probe.second.status = 500)
    => probe.first.resp = probe.second.resp

(***************************************************************************)
(* Claims about the deletion timers.                                       *)
(***************************************************************************)
\* C13: the step in which a deletion callback's unlink fails only logs the
\* failure: it changes no request, no reply, no download in progress, no
\* file and no other timer.
C13_UnlinkFailureContained ==
    [][warned' # warned =>
          /\ reqs' = reqs
          /\ dl' = dl
          /\ files' = files
          /\ \E name \in timers : timers' = timers \ {name} /\ warned' = warned \cup {name}]_vars

\* C13 witness: after the unlink of one file of a request failed, the timer
\* of another file of it deleted that file and a download was answered.
C13_Witness ==
    /\ warned # {} /\ fired # {}
    /\ dl.pc = "done" /\ dl.status = 200 /\ dl.name \in warned

(***************************************************************************)
(* Claims about the fetch attempts and the escaping of text.               *)
(***************************************************************************)
\* C14: one invocation of downloadImageWithFallback calls fetch exactly
\* once; after a failed attempt the only call that follows is the one that
\* builds the placeholder.
C14_SingleFetch ==
    probe.fn = "downloadImageWithFallback" =>
        /\ Cardinality({i \in 1..Len(probe.calls) : probe.calls[i] = "fetch"}) = 1
        /\ probe.calls[1] = "fetch"
        /\ (probe.outcome # "image" =>
                probe.calls[Len(probe.calls)] = "createPlaceholderImage")

\* C14 witness: an invocation whose fetch failed on the network returned the
\* placeholder.
C14_Witness ==
    /\ probe.fn = "downloadImageWithFallback" /\ probe.outcome = "neterr"
    /\ probe.result.buf.kind = "svg"

\* markup text with no raw <, >, " or ' and no & other than the start of
\* one of the five entities
MarkupSafe(s) ==
    \A i \in 1..Len(s) :
        /\ s[i] \notin {"<", ">", "\"", "'"}
        /\ (s[i] = "&" => EntityAt(s, i))

\* the character an entity stands for
EntityChar(e) ==
    IF e[2] = "a" THEN "&" ELSE IF e[2] = "l" THEN "<" ELSE IF e[2] = "g" THEN ">"
    ELSE IF e[2] = "q" THEN "\"" ELSE "'"

\* the five entities replaced back by their characters, in one pass from
\* the left
RECURSIVE UnescapeXml(_)
UnescapeXml(s) ==
    IF Len(s) = 0 THEN <<>>
    ELSE IF EntityAt(s, 1)
    THEN LET e == CHOOSE x \in XmlEntities :
                      Len(x) <= Len(s) /\ SubSeq(s, 1, Len(x)) = x
         IN  <<EntityChar(e)>> \o UnescapeXml(SubSeq(s, Len(e) + 1, Len(s)))
    ELSE <<s[1]>> \o UnescapeXml(Tail(s))

\* C15: a team name is escaped wherever it is embedded in markup: in the
\* overlay SVG, in the placeholder SVG (its first three characters) and in
\* the HTML document.
C15_AllMarkupEscaped ==
    probe.fn = "embed" =>
        /\ MarkupSafe(probe.overlay)
        /\ MarkupSafe(probe.placeholder)
        /\ MarkupSafe(probe.html)

\* C16: unescaping escapeXml(t) gives back t, and escapeXml(t) holds no
\* raw <, >, " or ' and no & that does not start one of the five entities.
C16_EscapeRoundTrip ==
    probe.fn = "escapeXml" =>
        /\ UnescapeXml(probe.result) = probe.text
        /\ MarkupSafe(probe.result)

\* C16 witness: a text that already held an entity and a raw "<" was
\* escaped.
C16_Witness ==
    /\ probe.fn = "escapeXml"
    /\ probe.text = <<"a", "&", "l", "t", ";", "<">>
    /\ probe.result = <<"a", "&", "a", "m", "p", ";", "l", "t", ";", "&", "l", "t", ";">>

(***************************************************************************)
(* Claims about the names of the artifacts.                                *)
(***************************************************************************)
\* the saves started so far, as <<request, resolution>>
StartedSaves == {<<r, res>> \in (1..MaxReq) \X Res : res \in DOMAIN reqs[r].saves}

\* C17: no two saves, of one request or of different requests, use the same
\* filename; each file on disk belongs to exactly one save, and no step
\* replaces the content of a file that exists.
C17_NoNameWrittenTwice ==
    /\ [](\A a \in StartedSaves, b \in StartedSaves :
              a # b => SaveName(a[1], a[2]) # SaveName(b[1], b[2]))
    /\ [](\A f \in files :
              Cardinality({a \in StartedSaves : SaveName(a[1], a[2]) = f.name}) = 1)
    /\ [][\A f \in files : \A g \in files' : g.name = f.name => g = f]_vars

\* C17 witness: files of two requests are on disk together, one request
\* with all three of its files.
C17_Witness ==
    \E r1 \in 1..MaxReq, r2 \in 1..MaxReq :
        /\ r1 # r2
        /\ \A res \in Res : res \in DOMAIN reqs[r1].saves /\ FileExists(SaveName(r1, res))
        /\ \E res \in DOMAIN reqs[r2].saves : FileExists(SaveName(r2, res))

\* a save whose write has succeeded
WrittenOk(name) ==
    \E a \in StartedSaves :
        SaveName(a[1], a[2]) = name /\ reqs[a[1]].saves[a[2]] \in {"written", "done"}

C19_HtmlToImageDegrades ==
    probe.fn = "htmlToImage" =>
        /\ probe.result.ok
        /\ (probe.in.browser # "screenshot" => probe.result.bytes = probe.html)
        /\ probe.reply.status = 200
        /\ probe.reply.resp.image = DataUrl(probe.result.bytes)

\* C19 witness: the browser failed to launch for a document of two games
\* and the request was answered 200.
C19_Witness ==
    /\ probe.fn = "htmlToImage" /\ probe.in.browser = "launchfail"
    /\ Len(probe.in.body.jogos) = 2
    /\ probe.reply.status = 200

\* C20: the text wrapped by either wrapText has at most four lines, for
\* every text and every per-line budget.
C20_WrapCapped ==
    probe.fn \in {"wrapText", "wrapText(imageGenerate)"} => Len(probe.lines) <= 4

(***************************************************************************)
(* Claims about a download racing the deletion timer (SpecDl).             *)
(***************************************************************************)
\* C23: a GET /download/:filename that overlaps the deletion timer of the
\* same file, the unlink falling between fs.access and fs.readFile included,
\* answers 200 with the complete saved bytes or 404, never 500.
C23_DownloadRace ==
    (dl.pc = "done" /\ dl.handler \in DownloadHandlers)
    => /\ dl.status \in {200, 404}
       /\ (dl.status = 200 /\ dl.linked)
          => \E res \in DOMAIN reqs[1].images : dl.bytes = reqs[1].images[res]

\* the race of C23 in the registered route: the file went away after the
\* existence check and the catch around readFile answered 404
C23_RaceIs404 ==
    /\ dl.pc = "done" /\ dl.handler = "footballRoutes"
    /\ dl.found /\ dl.status = 404 /\ dl.name \in fired

(***************************************************************************)
(* Claims about what file mode and base64 mode write (SpecApi).            *)
(***************************************************************************)
RendersOk(in) == \A res \in EpRes(in.ep) : RenderAll(in)[res].ok
Logged(r, res, what) == \E i \in DOMAIN reqs[r].log[res] : reqs[r].log[res][i] = what

\* C24: in file mode nothing is written to temp-images unless every render
\* of the request succeeded, and a file-mode 200 implies that every file of the
\* request was written and had its deletion timer scheduled.
C24_WritesNeedAllRenders ==
    /\ \A f \in files : \E r \in 1..MaxReq : \E res \in DOMAIN reqs[r].saves :
           f.name = SaveName(r, res)
    /\ \A r \in 1..MaxReq :
        /\ (reqs[r].fx.writes > 0 \/ DOMAIN reqs[r].saves # {}) => RendersOk(reqs[r].in)
        /\ (reqs[r].status = 200 /\ Linked(reqs[r].resp))
           => \A res \in EpRes(reqs[r].in.ep) :
                /\ res \in DOMAIN reqs[r].saves
                /\ Logged(r, res, "write")
                /\ Logged(r, res, "timer")
                /\ SaveName(r, res) \in timers \cup fired
                /\ FileExists(SaveName(r, res)) \/ SaveName(r, res) \in fired

\* C24 witness: a movie request answered 200 in file mode while its three
\* files are on disk with their timers pending.
C24_Witness ==
    /\ reqs[1].in.ep = "movie" /\ reqs[1].status = 200 /\ Linked(reqs[1].resp)
    /\ \A res \in EpRes("movie") : FileExists(SaveName(1, res)) /\ SaveName(1, res) \in timers

\* C26: a generation request served in base64 mode leaves the artifact store
\* unchanged, whatever the file flag: the step that handles it changes no
\* file, directory or timer and answers at once, and no save of it ever runs.
C26_Base64LeavesStore ==
    /\ [][\A r \in 1..MaxReq :
            ( /\ reqs[r].pc = "idle" /\ reqs'[r].pc # "idle"
              /\ reqs'[r].in.query.base64 = "true" )
            => /\ UNCHANGED storeVars
               /\ reqs'[r].pc = "done"]_vars
    /\ [](\A r \in 1..MaxReq :
            (reqs[r].pc # "idle" /\ reqs[r].in.query.base64 = "true")
            => /\ reqs[r].saves = <<>> /\ reqs[r].links = <<>>
               /\ reqs[r].fx.writes = 0)

\* C26 witness: a request with base64=true and file=true has been answered
\* 200 inline and temp-images still does not exist.
C26_Witness ==
    /\ Answered(1) /\ reqs[1].status = 200 /\ Inline(reqs[1].resp)
    /\ reqs[1].in.query.base64 = "true" /\ reqs[1].in.query.file = "true"
    /\ ~dirExists /\ files = {} /\ timers = {}

(***************************************************************************)
(* Claims about the artifact store (Spec).                                 *)
(***************************************************************************)
\* the save that owns the name has returned from writeFile and its
\* continuation, which sets the timer, has not run yet
TimerComing(name) ==
    \E a \in StartedSaves : SaveName(a[1], a[2]) = name /\ reqs[a[1]].saves[a[2]] = "written"

\* C25: every file the running process has written to temp-images has a
\* pending deletion timer or has had its timer fire, the files written by a
\* request that ended in a 500 after one of its saves failed included.
C25_EveryFileHasTimer ==
    \A f \in files : f.name \in timers \cup fired \/ TimerComing(f.name)

\* the case C25 singles out: the saves that succeeded next to a failed one
\* have their timers
C25_SurvivorsHaveTimers ==
    \A a \in StartedSaves :
        reqs[a[1]].saves[a[2]] = "done" => SaveName(a[1], a[2]) \in timers \cup fired

(***************************************************************************)
(* Claims about the team logos of the schedule image (SpecPure).           *)
(***************************************************************************)
\* what the download of a team's logo resolves with
HomeLogo(jogo, outcome) ==
    downloadImageWithFallback(outcome, 100, 100, Substring0(jogo.timeHome, LabelLen)).buf
AwayLogo(jogo, outcome) ==
    downloadImageWithFallback(outcome, 100, 100, Substring0(jogo.timeAway, LabelLen)).buf

\* C29: for every game i (counted from 0) and every order in which the home
\* and away downloads settle, teamLogos[2i] is the home logo of game i or its
\* placeholder and teamLogos[2i+1] the away one, teamLogos has twice as many
\* entries as there are games, and row i composites the logos of game i.
C29_LogosInGameOrder ==
    probe.fn = "teamLogos" =>
        /\ Len(probe.teamLogos) = 2 * Len(probe.jogos)
        /\ \A i \in 1..Len(probe.jogos) :
            /\ probe.teamLogos[2 * (i - 1) + 1] = HomeLogo(probe.jogos[i], probe.outs.home[i])
            /\ probe.teamLogos[2 * (i - 1) + 2] = AwayLogo(probe.jogos[i], probe.outs.away[i])
            /\ probe.rows[i] = << HomeLogo(probe.jogos[i], probe.outs.home[i]),
                                  AwayLogo(probe.jogos[i], probe.outs.away[i]) >>

\* C29 witness: two games; in the second the away download settled first and
\* fell back to its placeholder while the home logo was fetched.
C29_Witness ==
    /\ probe.fn = "teamLogos" /\ Len(probe.jogos) = 2
    /\ probe.outs.order[2] = <<2, 1>>
    /\ probe.outs.home[2] = "image" /\ probe.outs.away[2] = "neterr"
    /\ probe.teamLogos[4].kind = "svg" /\ probe.teamLogos[3].kind = "raster"

\* C30: when temp-images does not exist and several saves run concurrently,
\* of one request or of different requests, every interleaving of their
\* existence checks and directory creations leaves the directory present: a
\* mkdir that runs after another save created the directory succeeds, every
\* save reaches its write with the directory in place, and no save fails
\* before its write.
C30_ConcurrentMkdir ==
    /\ [][\A a \in StartedSaves :
            (reqs[a[1]].saves[a[2]] = "mkdir" /\ reqs'[a[1]].saves[a[2]] # "mkdir")
            => /\ reqs'[a[1]].saves[a[2]] = "write"
               /\ dirExists']_vars
    /\ [](\A a \in StartedSaves :
            /\ reqs[a[1]].saves[a[2]] \in {"write", "written", "done"} => dirExists
            /\ reqs[a[1]].saves[a[2]] = "failed" => Logged(a[1], a[2], "dir"))
    /\ [][dirExists => dirExists']_vars

\* C30 witness: a save of the second request found no directory and is about
\* to create it, while a save of the first request, which found none either,
\* has created it and written its file.
C30_Witness ==
    /\ dirExists
    /\ \E res \in DOMAIN reqs[2].saves : reqs[2].saves[res] = "mkdir"
    /\ \E res \in DOMAIN reqs[1].saves :
          reqs[1].saves[res] \in {"written", "done"} /\ FileExists(SaveName(1, res))
    /\ \A res \in DOMAIN reqs[1].saves : reqs[1].saves[res] # "access"

(***************************************************************************)
(* Claims about the filename parameter of the download route (SpecPure).   *)
(***************************************************************************)
\* a path is that of a direct child of temp-images
ChildOfUploadsDir(filePath) ==
    /\ Len(filePath) = Len(UPLOADS_DIR) + 1
    /\ \A k \in 1..Len(UPLOADS_DIR) : filePath[k] = <<UPLOADS_DIR[k]>>

\* C27: the download handler serves only direct children of temp-images:
\* for no value of the filename parameter, those holding ".." or path
\* separators included, does it read and return a file outside it.
C27_ServesOnlyChildren ==
    (probe.fn = "downloadPath" /\ probe.status = 200) => ChildOfUploadsDir(probe.filePath)

\* the artifact in temp-images is served under its own name
C27_ChildServed ==
    /\ probe.fn = "downloadPath" /\ probe.raw = <<"a.jpg">>
    /\ probe.status = 200 /\ ChildOfUploadsDir(probe.filePath)

(***************************************************************************)
(* Claims about a restart of the process (SpecRestart).                    *)
(***************************************************************************)
\* C21: a restart clears every pending deletion timer; the files that were
\* on disk at the restart stay on disk ever after, none of them has a timer
\* again, and no timer set before the restart runs after it.
C21_RestartOrphansFiles ==
    /\ [][boots' # boots => (timers' = {} /\ files' = files)]_vars
    /\ [](\A name \in orphaned : FileExists(name) /\ name \notin timers)
    /\ [][\A name \in orphaned' : name \in fired' => name \in fired]_vars
    /\ [][\A name \in orphaned : name \in orphaned']_vars

\* C21 witness: the process was restarted while a timer was pending; the
\* request served after the restart has had all its files deleted by their
\* timers, and a file written before the restart is still on disk.
C21_Witness ==
    /\ boots = 1
    /\ \E name \in orphaned : FileExists(name) /\ name \in DOMAIN due
    /\ reqs[1].status = 200
    /\ \A res \in DOMAIN reqs[1].saves : SaveName(1, res) \in fired

(***************************************************************************)
(* Claims about the advertised expiry (SpecClock).                         *)
(***************************************************************************)
\* C28: the expiry a file-mode reply advertises is never later than the
\* deletion: no deletion timer of the request's files runs before the
\* advertised expiry, counted from the reply.
C28_ExpiryNotAfterDeletion ==
    \A res \in DOMAIN reqs[1].links :
        (reqs[1].status = 200 /\ SaveName(1, res) \in fired)
        => now >= AdvertisedExpiry(1)

\* what does hold: no timer runs before its own delay, counted from the
\* setTimeout of its save, has elapsed
C28_NotBeforeDue ==
    \A name \in fired : now >= due[name]

(***************************************************************************)
(* Claims about a fetch that never completes (SpecHang).                   *)
(***************************************************************************)
\* C22: a generation request whose upstream asset fetch never completes
\* does not stay pending for ever: the server-wide request timeout ends it
\* and the client receives an outcome.
C22_HangingFetchEnds ==
    reqs[1].pc = "fetching" ~> Answered(1)

\* what does hold: a request whose fetches all settle is answered, and so is
\* a request the server is still receiving
C22_OthersAnswered ==
    (reqs[1].pc \in {"receiving", "saving"}) ~> (reqs[1].pc \in {"done", "fetching"})

====
